---------------------------- MODULE Spec2Model ----------------------------
(***************************************************************************)
(* A model of the eqprop simulator (src/sim/eqprop): the MCP4251 weight    *)
(* quantisation of network.py, the symmetric-nudge gradient and the        *)
(* training loop of training.py.                                           *)
(*                                                                         *)
(* Python floats are modelled as exact rationals <<n, d>> in lowest terms  *)
(* with d > 0; vectors (lists, numpy arrays) are functions on 0..n-1, so   *)
(* that node and weight indices are the 0-based indices of the source.     *)
(***************************************************************************)
EXTENDS Integers, Sequences, FiniteSets, TLC

(***************************************************************************)
(* Rational arithmetic: the float operations the source uses.              *)
(***************************************************************************)
Abs(n) == IF n < 0 THEN -n ELSE n

\* Euclid's algorithm; the remainder is bound as a value before the next
\* round, so that no round is evaluated twice
RECURSIVE GCD(_, _)
GCD(a, b) ==
    IF b = 0 THEN a
    ELSE CHOOSE g \in {GCD(y, r) : y \in {b}, r \in {a % b}} : TRUE

\* the rational n/d in lowest terms, d # 0.  In this and the operations
\* below the operands and the gcds are bound as values before they are used
Q(n, d) ==
    CHOOSE q \in {<<((IF d < 0 THEN -1 ELSE 1) * n) \div g,
                    ((IF d < 0 THEN -1 ELSE 1) * d) \div g>> :
                     g \in {GCD(Abs(n), Abs(d))}} : TRUE

QInt(n) == <<n, 1>>

QZero == QInt(0)

QNeg(a) == CHOOSE q \in {<<-x[1], x[2]>> : x \in {a}} : TRUE

QAdd(a, b) ==
    CHOOSE q \in
      { IF x[1] = 0 THEN y
        ELSE IF y[1] = 0 THEN x
        ELSE CHOOSE r \in
                 {Q(x[1] * (l \div x[2]) + y[1] * (l \div y[2]), l) :
                    l \in {(x[2] \div GCD(x[2], y[2])) * y[2]}} : TRUE
        : x \in {a}, y \in {b} } : TRUE

QSub(a, b) == QAdd(a, QNeg(b))

QMul(a, b) ==
    CHOOSE q \in
      { IF x[1] = 0 \/ y[1] = 0 THEN QZero
        ELSE CHOOSE r \in
                 {Q((x[1] \div g1) * (y[1] \div g2), (x[2] \div g2) * (y[2] \div g1)) :
                    g1 \in {GCD(Abs(x[1]), y[2])}, g2 \in {GCD(Abs(y[1]), x[2])}} : TRUE
        : x \in {a}, y \in {b} } : TRUE

\* 1.0 / a, for a # 0
QRecip(a) == CHOOSE q \in {Q(x[2], x[1]) : x \in {a}} : TRUE

QDiv(a, b) == QMul(a, QRecip(b))

\* a < b, by continued-fraction descent (no cross products)
RECURSIVE QLtValues(_, _)
QLtValues(a, b) ==
    LET fa == a[1] \div a[2]
        fb == b[1] \div b[2]
        ra == a[1] - fa * a[2]
        rb == b[1] - fb * b[2]
    IN  IF fa # fb THEN fa < fb
        ELSE IF rb = 0 THEN FALSE
        ELSE IF ra = 0 THEN TRUE
        ELSE \E x \in {<<b[2], rb>>}, y \in {<<a[2], ra>>} : QLtValues(x, y)

QLt(a, b) == \E x \in {a}, y \in {b} : QLtValues(x, y)

QLe(a, b) == ~QLt(b, a)

QAbs(a) == <<Abs(a[1]), a[2]>>

\* np.clip(x, lo, hi)
QClip(x, lo, hi) ==
    CHOOSE q \in {IF QLt(v, lo) THEN lo ELSE IF QLt(hi, v) THEN hi ELSE v : v \in {x}} :
        TRUE

\* Python's round(x) for a float x: nearest integer, ties to the even one
PyRoundFloor(x) == x[1] \div x[2]

PyRound(x) ==
    LET f == x[1] \div x[2]
        r == x[1] - f * x[2]
    IN  IF 2 * r < x[2] THEN f
        ELSE IF 2 * r > x[2] THEN f + 1
        ELSE IF f % 2 = 0 THEN f ELSE f + 1

IntClip_unclipped(n, lo, hi) == n

\* int(np.clip(n, lo, hi)) for an integer n
IntClip(n, lo, hi) == IF n < lo THEN lo ELSE IF n > hi THEN hi ELSE n

\* vectors: functions on 0..n-1
Idx(n) == 0 .. (n - 1)

VLen(v) == Cardinality(DOMAIN v)

Vec1(a) == [i \in Idx(1) |-> a]

Vec2(a, b) == [i \in Idx(2) |-> IF i = 0 THEN a ELSE b]

Vec3(a, b, c) == [i \in Idx(3) |-> IF i = 0 THEN a ELSE IF i = 1 THEN b ELSE c]

\* np.zeros(n)
zeros(n) == [i \in Idx(n) |-> QZero]

\* list(a) + list(b)
VConcat(a, b) ==
    [i \in Idx(VLen(a) + VLen(b)) |-> IF i < VLen(a) THEN a[i] ELSE b[i - VLen(a)]]

\* sum(v)
RECURSIVE VSumTo(_, _)
VSumTo(v, n) == IF n = 0 THEN QZero ELSE QAdd(VSumTo(v, n - 1), v[n - 1])

VSum(v) == VSumTo(v, VLen(v))

\* the position a Python list or a numpy array of length n reads for the
\* index i: negative indices count from the end; -1 stands for IndexError
PyIndex(n, i) ==
    IF 0 <= i /\ i < n THEN i
    ELSE IF -n <= i /\ i < 0 THEN n + i
    ELSE -1

\* raised exceptions, as values
LinAlgError == <<"LinAlgError">>

IndexError == <<"IndexError">>

Raised(x) == x \in {LinAlgError, IndexError}

(***************************************************************************)
(* WeightParams, with the MCP4251-104 defaults (network.py).               *)
(***************************************************************************)
R_series == 1200

R_min == 1590

R_max == 101200

N_taps == 256

R_pot_full == 100000

G_min == QRecip(QInt(R_max))

G_max == QRecip(QInt(R_min))

resistance_to_tap_floor(r) ==
    LET r_pot == QSub(r, QInt(R_series))
        tap   == PyRoundFloor(QDiv(QMul(QSub(QInt(R_pot_full), r_pot), QInt(N_taps)),
                                   QInt(R_pot_full)))
    IN  IntClip(tap, 1, N_taps)

resistance_to_tap_zero_based(r) ==
    LET r_pot == QSub(r, QInt(R_series))
        tap   == PyRound(QDiv(QMul(QSub(QInt(R_pot_full), r_pot), QInt(N_taps)),
                              QInt(R_pot_full)))
    IN  IntClip(tap, 0, N_taps - 1)

resistance_to_tap(r) ==
    LET r_pot == QSub(r, QInt(R_series))
        tap   == PyRound(QDiv(QMul(QSub(QInt(R_pot_full), r_pot), QInt(N_taps)),
                              QInt(R_pot_full)))
    IN  IntClip(tap, 1, N_taps)

tap_to_resistance_noseries(tap) ==
    QMul(QInt(R_pot_full), QSub(QInt(1), Q(tap, N_taps)))

tap_to_resistance(tap) ==
    LET r_pot == QMul(QInt(R_pot_full), QSub(QInt(1), Q(tap, N_taps)))
    IN  QAdd(r_pot, QInt(R_series))

\* (quantized_weights, taps)
quantize_weights(weights) ==
    LET taps == [i \in DOMAIN weights |-> resistance_to_tap(weights[i])]
    IN  [weights |-> [i \in DOMAIN taps |-> tap_to_resistance(taps[i])],
         taps    |-> taps]


(***************************************************************************)
(* The antiparallel diode pair (diode.py).  np.sinh is transcendental: a   *)
(* current coef * sinh(x) is kept as the pair of its exact coefficient and *)
(* its exact argument, and compared through what sinh is known to be: odd, *)
(* strictly increasing, zero only at 0, finite in doubles below 710.4758.  *)
(***************************************************************************)
BAT42 == [Is |-> Q(1, 10000000), N |-> Q(11, 10), VT |-> Q(517, 20000)]

\* coef * np.sinh(x)
SinhTerm(coef, x) == [coef |-> coef, x |-> x]

\* the largest argument np.sinh maps to a finite double is about 710.4758
sinh_finite(x) == QLt(QAbs(x), Q(7104758, 10000))

SinhFinite(t) == t.coef = QZero \/ sinh_finite(t.x)

SinhIsZero(t) == t.coef = QZero \/ t.x = QZero

\* s <= t as real numbers, for two terms of the same coefficient
SinhLe(s, t) ==
    IF QLt(s.coef, QZero) THEN QLe(t.x, s.x)
    ELSE IF s.coef = QZero THEN TRUE
    ELSE QLe(s.x, t.x)

\* -t
SinhNeg(t) == SinhTerm(t.coef, QNeg(t.x))

diode_current_into_noclip(v_node, v_ref, params) ==
    LET nVt == QMul(params.N, params.VT)
        x   == QDiv(QSub(v_node, v_ref), nVt)
    IN  SinhTerm(QMul(QInt(-2), params.Is), x)

diode_current_into(v_node, v_ref, params) ==
    LET nVt == QMul(params.N, params.VT)
        x   == QClip(QDiv(QSub(v_node, v_ref), nVt), QInt(-500), QInt(500))
    IN  SinhTerm(QMul(QInt(-2), params.Is), x)

(***************************************************************************)
(* Network (network.py): topology record, prediction, nudge currents.      *)
(***************************************************************************)
None == <<>>

\* float('inf')
Inf == <<1, 0>>

\* a - b and a < b for floats that may be inf (b finite in a - b)
FSub(a, b) == IF a = Inf THEN Inf ELSE QSub(a, b)

FLt(a, b) ==
    IF a = Inf THEN FALSE
    ELSE IF b = Inf THEN TRUE
    ELSE QLt(a, b)

n_weights(net) == VLen(net.connections)

\* free_voltages is a numpy array: a negative output index counts from the end
prediction(net, free_voltages) ==
    LET n == VLen(free_voltages)
    IN  QSub(free_voltages[PyIndex(n, net.output_pos_idx)],
             free_voltages[PyIndex(n, net.output_neg_idx)])

nudge_currents_unscaled(net, beta, error) ==
    [free_idx \in Idx(net.n_free) |->
        IF free_idx \in DOMAIN net.nudge_signs
        THEN QMul(QInt(net.nudge_signs[free_idx]), beta) ELSE QZero]

nudge_currents_unsigned(net, beta, error) ==
    [free_idx \in Idx(net.n_free) |->
        IF free_idx \in DOMAIN net.nudge_signs THEN QMul(beta, error) ELSE QZero]

\* nudge = np.zeros(n_free); nudge[free_idx] = sign * beta * error for every
\* item of nudge_signs, a later item overwriting an earlier one
nudge_currents(net, beta, error) ==
    [free_idx \in Idx(net.n_free) |->
        LET keys == {key \in DOMAIN net.nudge_signs :
                        PyIndex(net.n_free, key) = free_idx}
        IN  IF keys = {} THEN QZero
            ELSE LET key == CHOOSE key \in keys : \A other \in keys : other <= key
                 IN  QMul(QMul(QInt(net.nudge_signs[key]), beta), error)]

(***************************************************************************)
(* np.linalg.solve on exact rationals: LU elimination with row pivoting on *)
(* the augmented matrix, a zero pivot column raising LinAlgError, then     *)
(* back substitution.                                                      *)
(***************************************************************************)
pivot_row(M, k) ==
    CHOOSE r \in k .. (VLen(M) - 1) :
        \A s \in k .. (VLen(M) - 1) :
            /\ QLe(QAbs(M[s][k]), QAbs(M[r][k]))
            /\ QAbs(M[s][k]) = QAbs(M[r][k]) => r <= s

RECURSIVE forward_eliminate(_, _)
forward_eliminate(M, k) ==
    IF k = VLen(M) THEN M
    ELSE LET piv == pivot_row(M, k)
         IN  IF M[piv][k] = QZero THEN LinAlgError
             ELSE LET S == [r \in DOMAIN M |->
                              IF r = k THEN M[piv] ELSE IF r = piv THEN M[k] ELSE M[r]]
                      E == [r \in DOMAIN M |->
                              IF r <= k THEN S[r]
                              ELSE LET l == QDiv(S[r][k], S[k][k])
                                   IN  [c \in DOMAIN S[r] |->
                                          QSub(S[r][c], QMul(l, S[k][c]))]]
                  IN  forward_eliminate(E, k + 1)

RECURSIVE back_substitute(_, _, _)
back_substitute(U, i, x) ==
    IF i < 0 THEN x
    ELSE LET n  == VLen(U)
             s  == VSum([c \in Idx(n) |-> IF c > i THEN QMul(U[i][c], x[c]) ELSE QZero])
             xi == QDiv(QSub(U[i][n], s), U[i][i])
         IN  back_substitute(U, i - 1, [x EXCEPT ![i] = xi])

linalg_solve(A, b) ==
    LET n == VLen(b)
        M == [r \in Idx(n) |-> [c \in Idx(n + 1) |-> IF c < n THEN A[r][c] ELSE b[r]]]
        U == forward_eliminate(M, 0)
    IN  IF U = LinAlgError THEN LinAlgError
        ELSE back_substitute(U, n - 1, zeros(n))

(***************************************************************************)
(* resistive_initial_guess and solve_network (network.py).                 *)
(***************************************************************************)
\* i - net.n_fixed if i >= net.n_fixed else -1
free_index(net, i) == IF i >= net.n_fixed THEN i - net.n_fixed ELSE -1

\* does the loop body of resistive_initial_guess raise on this connection
guess_raises(net, fixed, conn) ==
    LET i_free == free_index(net, conn[1])
        j_free == free_index(net, conn[2])
    IN  IF i_free >= 0 /\ j_free >= 0
        THEN i_free >= net.n_free \/ j_free >= net.n_free
        ELSE IF i_free >= 0
        THEN i_free >= net.n_free \/ PyIndex(VLen(fixed), conn[2]) = -1
        ELSE IF j_free >= 0
        THEN j_free >= net.n_free \/ PyIndex(VLen(fixed), conn[1]) = -1
        ELSE FALSE

G_mat_entry_no_coupling(net, w, conn, a, b) ==
    LET g      == QRecip(w)
        i_free == free_index(net, conn[1])
        j_free == free_index(net, conn[2])
    IN  IF i_free >= 0 /\ a = i_free /\ b = i_free THEN g
        ELSE IF j_free >= 0 /\ a = j_free /\ b = j_free THEN g
        ELSE QZero

\* what one connection adds to G_mat[a, b]
G_mat_entry(net, w, conn, a, b) ==
    LET g      == QRecip(w)
        i_free == free_index(net, conn[1])
        j_free == free_index(net, conn[2])
    IN  IF i_free >= 0 /\ j_free >= 0
        THEN QAdd(QAdd(IF a = i_free /\ b = i_free THEN g ELSE QZero,
                       IF a = j_free /\ b = j_free THEN g ELSE QZero),
                  QAdd(IF a = i_free /\ b = j_free THEN QNeg(g) ELSE QZero,
                       IF a = j_free /\ b = i_free THEN QNeg(g) ELSE QZero))
        ELSE IF i_free >= 0
        THEN IF a = i_free /\ b = i_free THEN g ELSE QZero
        ELSE IF j_free >= 0
        THEN IF a = j_free /\ b = j_free THEN g ELSE QZero
        ELSE QZero

I_vec_entry_unweighted(net, fixed, w, conn, a) ==
    LET g      == QRecip(w)
        i_free == free_index(net, conn[1])
        j_free == free_index(net, conn[2])
    IN  IF i_free >= 0 /\ j_free >= 0 THEN QZero
        ELSE IF i_free >= 0
        THEN IF a = i_free
             THEN QMul(g, fixed[PyIndex(VLen(fixed), conn[2])]) ELSE QZero
        ELSE IF j_free >= 0
        THEN IF a = j_free
             THEN fixed[PyIndex(VLen(fixed), conn[1])] ELSE QZero
        ELSE QZero

\* what one connection adds to I_vec[a]
I_vec_entry(net, fixed, w, conn, a) ==
    LET g      == QRecip(w)
        i_free == free_index(net, conn[1])
        j_free == free_index(net, conn[2])
    IN  IF i_free >= 0 /\ j_free >= 0 THEN QZero
        ELSE IF i_free >= 0
        THEN IF a = i_free
             THEN QMul(g, fixed[PyIndex(VLen(fixed), conn[2])]) ELSE QZero
        ELSE IF j_free >= 0
        THEN IF a = j_free
             THEN QMul(g, fixed[PyIndex(VLen(fixed), conn[1])]) ELSE QZero
        ELSE QZero

\* zip(weights, net.connections) stops at the shorter of the two
zipped(weights, net) == DOMAIN weights \cap DOMAIN net.connections

\* G_mat and I_vec after the loop over the zipped weights and connections
G_mat(net, weights) ==
    [a \in Idx(net.n_free) |-> [b \in Idx(net.n_free) |->
        VSum([k \in Idx(Cardinality(zipped(weights, net))) |->
                G_mat_entry(net, weights[k], net.connections[k], a, b)])]]

I_vec(net, fixed, weights) ==
    [a \in Idx(net.n_free) |->
        VSum([k \in Idx(Cardinality(zipped(weights, net))) |->
                I_vec_entry(net, fixed, weights[k], net.connections[k], a)])]

resistive_initial_guess(net, inputs, weights) ==
    LET fixed == inputs
        K     == Cardinality(zipped(weights, net))
    IN  IF \E k \in Idx(K) : guess_raises(net, fixed, net.connections[k])
        THEN IndexError
        ELSE linalg_solve(G_mat(net, weights), I_vec(net, fixed, weights))

\* does kcl raise at this connection or diode: all_v is a list of n_all
\* entries, I and state are arrays of n_free entries
kcl_raises(net, n_all) ==
    \/ \E k \in DOMAIN net.connections :
          \/ PyIndex(n_all, net.connections[k][1]) = -1
          \/ PyIndex(n_all, net.connections[k][2]) = -1
    \/ \E key \in DOMAIN net.diode_nodes : PyIndex(net.n_free, key) = -1

kcl_current_outward(net, all_v, w, conn, a) ==
    LET n_all   == VLen(all_v)
        i       == conn[1]
        j       == conn[2]
        current == QDiv(QSub(all_v[PyIndex(n_all, i)], all_v[PyIndex(n_all, j)]), w)
    IN  QAdd(IF j >= net.n_fixed /\ j - net.n_fixed = a THEN QNeg(current) ELSE QZero,
             IF i >= net.n_fixed /\ i - net.n_fixed = a THEN QNeg(current) ELSE QZero)

\* the resistive current one connection adds to I[a]
kcl_current(net, all_v, w, conn, a) ==
    LET n_all   == VLen(all_v)
        i       == conn[1]
        j       == conn[2]
        current == QDiv(QSub(all_v[PyIndex(n_all, i)], all_v[PyIndex(n_all, j)]), w)
    IN  QAdd(IF j >= net.n_fixed /\ j - net.n_fixed = a THEN current ELSE QZero,
             IF i >= net.n_fixed /\ i - net.n_fixed = a THEN QNeg(current) ELSE QZero)

\* the residual: per free node the rational part (resistors and nudge) and
\* the diode pair currents added to it, each a multiple of a sinh
kcl(net, fixed, weights, nudge, state) ==
    LET all_v == VConcat(fixed, state)
        K     == Cardinality(zipped(weights, net))
    IN  IF kcl_raises(net, VLen(all_v)) THEN IndexError
        ELSE [a \in Idx(net.n_free) |->
                [lin    |-> QAdd(VSum([k \in Idx(K) |->
                                         kcl_current(net, all_v, weights[k],
                                                     net.connections[k], a)]),
                                 nudge[a]),
                 diodes |-> { <<key, diode_current_into(
                                        state[PyIndex(net.n_free, key)],
                                        net.diode_nodes[key], net.diode_params)>> :
                                key \in {key \in DOMAIN net.diode_nodes :
                                            PyIndex(net.n_free, key) = a} }]]

\* the residual is zero: no rational part, and every sinh taken at 0
residual_zero(I) ==
    \A a \in DOMAIN I :
        /\ \A d \in I[a].diodes : d[2].x = QZero
        /\ I[a].lin = QZero

\* the voltages a root-finder run can end on when it has to iterate:
\* scipy's hybr iteration is not part of the repository, and solve_network
\* returns sol.x whether or not the iteration converged
VoltGrid == {Q(0, 1), Q(1, 10)}

GridVoltages(n) == [Idx(n) -> VoltGrid]

\* an OptimizeResult: its x and its success flag
OptimizeResult(x, success) == <<x, success>>

sol_x(sol) == sol[1]

sol_success(sol) == sol[2]

\* scipy.optimize.root(fun, x0, method='hybr'): fun_x0 is fun(x0).  A start
\* with a zero residual is returned as it is (the dogleg step is zero and
\* the fnorm = 0 test ends the run); otherwise the run ends on some iterate,
\* converged or not; an exception of fun propagates
root(fun_x0, x0) ==
    IF Raised(fun_x0) THEN {fun_x0}
    ELSE IF residual_zero(fun_x0) THEN {OptimizeResult(x0, TRUE)}
    ELSE {OptimizeResult(x, success) : x \in GridVoltages(VLen(x0)),
                                       success \in BOOLEAN}

\* one more root call from the same start when the first did not converge
root_calls_retried(fun_x0, x0) ==
    { IF Raised(sol) THEN <<>>
      ELSE IF sol_success(sol) THEN <<sol>>
      ELSE <<sol, again>> : sol \in root(fun_x0, x0), again \in root(fun_x0, x0) }

\* the root calls of one solve_network call that came back, in order: sol
root_calls(fun_x0, x0) ==
    { IF Raised(sol) THEN <<>> ELSE <<sol>> : sol \in root(fun_x0, x0) }

\* the outcomes of solve_network: the root calls made, and the vector
\* returned (sol.x of the last one) or the exception raised
solve_network_run(net, inputs, weights, nudge, x0) ==
    LET fixed  == inputs
        nudge1 == IF nudge = None THEN zeros(net.n_free) ELSE nudge
        x01    == IF x0 = None
                  THEN resistive_initial_guess(net, inputs, weights)
                  ELSE x0
    IN  IF Raised(x01) THEN {[sols |-> <<>>, ret |-> x01]}
        ELSE UNION { { [sols |-> sols,
                        ret  |-> IF sols = <<>> THEN fun_x0
                                 ELSE sol_x(sols[Len(sols)])]
                       : sols \in root_calls(fun_x0, x01) }
                     : fun_x0 \in {kcl(net, fixed, weights, nudge1, x01)} }

\* the set of outcomes of solve_network: the vectors it can return, or the
\* exception it raises
solve_network(net, inputs, weights, nudge, x0) ==
    {run.ret : run \in solve_network_run(net, inputs, weights, nudge, x0)}

(***************************************************************************)
(* eqprop_gradient (training.py): the set of possible returns, one per     *)
(* outcome of the three solves.  V_pos, V_neg and the nudge vectors are    *)
(* the locals of the call, kept for inspection.                            *)
(***************************************************************************)
QSquare(a) == QMul(a, a)

gradient_entry_2beta(all_pos, all_neg, beta, conn) ==
    LET dv_pos == QSub(all_pos[conn[1]], all_pos[conn[2]])
        dv_neg == QSub(all_neg[conn[1]], all_neg[conn[2]])
    IN  QDiv(QSub(QSquare(dv_pos), QSquare(dv_neg)), QMul(QInt(2), beta))

\* grad[w_idx] for the connection conn = (i, j)
gradient_entry(all_pos, all_neg, beta, conn) ==
    LET dv_pos == QSub(all_pos[conn[1]], all_pos[conn[2]])
        dv_neg == QSub(all_neg[conn[1]], all_neg[conn[2]])
    IN  QDiv(QSub(QSquare(dv_pos), QSquare(dv_neg)), QMul(QInt(4), beta))

\* a call that a solve's exception ended
gradient_raised(exc) ==
    [grad |-> None, pred |-> None, free_eq |-> None, nudge_pos |-> None,
     nudge_neg |-> None, V_pos |-> None, V_neg |-> None, raised |-> exc]

\* the nudged part of the call, for the free equilibrium fe
gradient_from(net, inputs, weights, target, beta, fe) ==
    LET pred      == prediction(net, fe)
        error     == QSub(target, pred)
        nudge_pos == nudge_currents(net, beta, error)
        nudge_neg == nudge_currents(net, QNeg(beta), error)
    IN  { IF Raised(V_pos) THEN gradient_raised(V_pos)
          ELSE IF Raised(V_neg) THEN gradient_raised(V_neg)
          ELSE LET all_pos == VConcat(inputs, V_pos)
                   all_neg == VConcat(inputs, V_neg)
               IN  [grad      |-> [w_idx \in Idx(n_weights(net)) |->
                                     gradient_entry(all_pos, all_neg, beta,
                                                    net.connections[w_idx])],
                    pred      |-> pred,
                    free_eq   |-> fe,
                    nudge_pos |-> nudge_pos,
                    nudge_neg |-> nudge_neg,
                    V_pos     |-> V_pos,
                    V_neg     |-> V_neg,
                    raised    |-> None]
          : V_pos \in solve_network(net, inputs, weights, nudge_pos, fe),
            V_neg \in solve_network(net, inputs, weights, nudge_neg, fe) }

eqprop_gradient(net, inputs, weights, target, beta, free_eq) ==
    UNION { IF Raised(fe) THEN {gradient_raised(fe)}
            ELSE gradient_from(net, inputs, weights, target, beta, fe)
          : fe \in (IF free_eq = None
                    THEN solve_network(net, inputs, weights, None, None)
                    ELSE {free_eq}) }


(***************************************************************************)
(* State.  A train run: its arguments, its position and its locals; the    *)
(* callback invocations and the TrainResult are what the caller sees.      *)
(* A quantize_weights round trip and an eqprop_gradient call have their    *)
(* own positions and values.                                               *)
(***************************************************************************)
VARIABLES
    args,         \* train's arguments, and the G_init the seeded generator drew
    pc,           \* "for" | "patterns" | "Converged" | "Plateaued" |
                  \* "ExhaustedEpochs" | "raised" | "idle"
    epoch,        \* the index the for loop is at
    p,            \* the index the dataset loop is at
    weights,
    epoch_loss,   \* None while unbound
    grad_acc,
    best_loss,
    stall_count,
    log,          \* the log_fn invocations so far, in order
    result,       \* the returned TrainResult, None before the return
    losses,       \* history: the accumulated loss of every executed epoch
    updates,      \* history: the number of batch weight updates performed
    calls,        \* history: the eqprop_gradient calls of the epoch under way,
                  \* each with the weights it saw, its locals and its return
    log_at,       \* history: the weights the preds of the epoch just ended
                  \* were solved at, None when it was not logged
    q_pc,         \* "weights" | "once" | "twice" | "tap" | "tap_r" | "tap_back" | "idle"
    q_weights,    \* the weights handed to quantize_weights
    q_first,      \* quantize_weights(q_weights)
    q_second,     \* quantize_weights of the first result's weights
    t_tap,        \* a tap position, its resistance, and that resistance's tap
    t_r,
    t_back,
    g_pc,         \* "call" | "returned" | "idle"
    g_call,       \* the arguments of an eqprop_gradient call
    g_ret,        \* what the call returned
    s_pc,         \* "call" | "returned" | "raised" | "idle"
    s_call,       \* the arguments of a solve_network call
    s_ret,        \* the returned voltages, or the exception raised
    s_sols,       \* the OptimizeResults root handed to the call, in order
    d_pc,         \* "call" | "returned" | "idle"
    d_call,       \* the arguments of a diode_current_into call
    d_ret,        \* the returned current
    np_random,    \* numpy's module-level generator, which every run can reach
    runs,         \* train runs in flight side by side: each one's arguments,
                  \* position, locals, log_fn invocations and TrainResult
    m_pc,         \* the function called on the objects below, then
                  \* "<function> returned"; or "idle"
    m_call,       \* the caller's objects and the arguments, as references
    m_mem,        \* the objects after the call, and which were written in place
    m_ret         \* what the call returned: references, and plain values

trainVars == <<args, pc, epoch, p, weights, epoch_loss, grad_acc, best_loss,
               stall_count, log, result, losses, updates, calls, log_at>>

quantVars == <<q_pc, q_weights, q_first, q_second, t_tap, t_r, t_back>>

gradVars == <<g_pc, g_call, g_ret>>

solveVars == <<s_pc, s_call, s_ret, s_sols>>

diodeVars == <<d_pc, d_call, d_ret>>

pairVars == <<np_random, runs>>

memVars == <<m_pc, m_call, m_mem, m_ret>>

vars == <<trainVars, quantVars, gradVars, solveVars, diodeVars, pairVars,
         memVars>>

(***************************************************************************)
(* The inputs the runs are explored on.                                    *)
(***************************************************************************)
MaxEpochs == 3

\* patience: stop at the first stalled epoch, or at the second in a row
Patiences == {1, 2}

\* one clamped node and two free nodes, each tied to it by a resistor; a
\* diode pair from the first free node to the 0 V rail
TrainNet ==
    [n_fixed        |-> 1,
     n_free         |-> 2,
     connections    |-> Vec2(<<0, 1>>, <<0, 2>>),
     diode_nodes    |-> [free_idx \in {0} |-> QZero],
     output_pos_idx |-> 0,
     output_neg_idx |-> 1,
     nudge_signs    |-> Vec2(1, -1),
     diode_params   |-> BAT42]

Pattern(inputs, target) == [inputs |-> inputs, target |-> target]

\* two patterns: a low input with target 0.1 V, a high input with target 0 V
BatchDataset ==
    Vec2(Pattern(Vec1(QInt(1)), Q(1, 10)), Pattern(Vec1(QInt(4)), QZero))

Datasets == { Vec1(Pattern(Vec1(QInt(1)), Q(1, 10))), BatchDataset }

\* lr = 5e-9 and beta = 1e-5, train's defaults
LearningRates == {Q(5, 1000000000)}

Betas == {Q(1, 100000)}

\* min_delta = 1e-6 (the default) and 0.02
MinDeltas == {Q(1, 1000000), Q(1, 50)}

LogIntervals == {2}

\* what rng.uniform(G_min, G_max, n) can draw: both ends and values between
GInitValues == {Q(1, 50000), G_max}

GInits(net) == {[w_idx \in Idx(n_weights(net)) |-> g] : g \in GInitValues}

(***************************************************************************)
(* train (training.py).                                                    *)
(***************************************************************************)
\* epoch_loss < 0.005
LossThreshold == Q(5, 1000)

TrainResult(w, final_loss, converged, epochs_run) ==
    [weights |-> w, final_loss |-> final_loss, converged |-> converged,
     epochs_run |-> epochs_run]

\* weights = 1.0 / G_init
initial_weights(G_init) == [w_idx \in DOMAIN G_init |-> QRecip(G_init[w_idx])]

batch_update_noclip(w, g_acc, lr) ==
    [w_idx \in DOMAIN w |->
        QRecip(QSub(QRecip(w[w_idx]), QMul(lr, g_acc[w_idx])))]

\* the batch weight update in conductance space
batch_update(w, g_acc, lr) ==
    [w_idx \in DOMAIN w |->
        LET G  == QRecip(w[w_idx])
            G1 == QClip(QSub(G, QMul(lr, g_acc[w_idx])), G_min, G_max)
        IN  QRecip(G1)]

improving_nonstrict(loss, best, min_delta) == ~FLt(FSub(best, min_delta), loss)

\* plateau detection: does this epoch improve on best_loss
improving(loss, best, min_delta) == FLt(loss, FSub(best, min_delta))

stall_after(loss, best, stall, min_delta) ==
    IF improving(loss, best, min_delta) THEN 0 ELSE stall + 1

best_after(loss, best, min_delta) ==
    IF improving(loss, best, min_delta) THEN loss ELSE best

stop_reason_plateau_first(loss, stall, patience) ==
    IF stall >= patience THEN "Plateaued"
    ELSE IF QLt(loss, LossThreshold) THEN "Converged"
    ELSE "for"

\* the two early returns, in the order the code tests them
stop_reason(loss, stall, patience) ==
    IF QLt(loss, LossThreshold) THEN "Converged"
    ELSE IF stall >= patience THEN "Plateaued"
    ELSE "for"

\* preds: one fresh solve per pattern at the given weights; the list is
\* built again before an early return, from the same arguments, and the
\* solver is deterministic, so an epoch has one such list
RECURSIVE predictions_to(_, _, _, _)
predictions_to(net, dataset, w, n) ==
    IF n = 0 THEN {<<>>}
    ELSE { [k \in Idx(n) |-> IF k < n - 1 THEN preds[k] ELSE prediction(net, v)] :
             preds \in predictions_to(net, dataset, w, n - 1),
             v \in solve_network(net, dataset[n - 1].inputs, w, None, None) }

log_predictions(net, dataset, w) == predictions_to(net, dataset, w, VLen(dataset))

log_due_no_final(e, log_interval, n_epochs) == e % log_interval = 0

\* epoch % log_interval == 0 or epoch == n_epochs - 1
log_due(e, log_interval, n_epochs) ==
    e % log_interval = 0 \/ e = n_epochs - 1

LogCall(e, loss, preds) == [epoch |-> e, loss |-> loss, preds |-> preds]

VAdd_overwrite(a, b) == b

\* grad_acc += grad
VAdd(a, b) == [i \in DOMAIN a |-> QAdd(a[i], b[i])]

\* the argument tuples explored: the small min_delta with the low initial
\* conductances, the large one with the high ones; the two-pattern dataset
\* for one epoch, from the low initial conductances
TrainArgs ==
    { a \in [dataset      : Datasets,
             n_epochs     : 0 .. MaxEpochs,
             lr           : LearningRates,
             beta         : Betas,
             patience     : Patiences,
             min_delta    : MinDeltas,
             log_interval : LogIntervals,
             G_init       : GInits(TrainNet)] :
        /\ (a.min_delta = Q(1, 1000000)) = (a.G_init[0] # G_max)
        /\ a.dataset = BatchDataset
              => a.n_epochs = 1 /\ a.patience = 1 /\ a.G_init[0] # G_max }

TrainInit ==
    /\ args \in TrainArgs
    /\ weights = initial_weights(args.G_init)
    /\ pc = "for"
    /\ epoch = 0
    /\ p = 0
    /\ epoch_loss = None
    /\ grad_acc = None
    /\ best_loss = Inf
    /\ stall_count = 0
    /\ log = <<>>
    /\ result = None
    /\ losses = <<>>
    /\ updates = 0
    /\ calls = <<>>
    /\ log_at = None

TrainIdle ==
    /\ args = None /\ weights = None /\ pc = "idle" /\ epoch = 0 /\ p = 0
    /\ epoch_loss = None /\ grad_acc = None /\ best_loss = Inf
    /\ stall_count = 0 /\ log = <<>> /\ result = None /\ losses = <<>>
    /\ updates = 0 /\ calls = <<>> /\ log_at = None

epoch_in_range_inclusive(e, n_epochs) == e <= n_epochs

\* range(n_epochs) has a next index e
epoch_in_range(e, n_epochs) == e < n_epochs

\* for epoch in range(n_epochs): epoch_loss = 0.0; grad_acc = zeros
EpochBegin ==
    /\ pc = "for"
    /\ epoch_in_range(epoch, args.n_epochs)
    /\ epoch_loss' = QZero
    /\ grad_acc' = zeros(n_weights(TrainNet))
    /\ p' = 0
    /\ pc' = "patterns"
    /\ UNCHANGED <<args, epoch, weights, best_loss, stall_count, log, result,
                   losses, updates, calls, log_at, quantVars, gradVars,
                   solveVars, diodeVars, pairVars, memVars>>

\* one iteration of: for inputs, target in dataset, where returns are the
\* outcomes the eqprop_gradient call can have
PatternStepWith(returns) ==
    /\ pc = "patterns"
    /\ p < VLen(args.dataset)
    /\ \E ret \in returns :
          IF ret.raised # None
          THEN /\ pc' = "raised"
               /\ UNCHANGED <<grad_acc, epoch_loss, p, calls>>
          ELSE /\ calls' = Append(calls, [weights   |-> weights,
                                          grad      |-> ret.grad,
                                          pred      |-> ret.pred,
                                          nudge_pos |-> ret.nudge_pos,
                                          nudge_neg |-> ret.nudge_neg,
                                          V_pos     |-> ret.V_pos,
                                          V_neg     |-> ret.V_neg])
               /\ grad_acc' = VAdd(grad_acc, ret.grad)
               /\ epoch_loss' = QAdd(epoch_loss,
                                     QMul(Q(1, 2),
                                          QSquare(QSub(args.dataset[p].target,
                                                       ret.pred))))
               /\ p' = p + 1
               /\ pc' = pc
    /\ UNCHANGED <<args, epoch, weights, best_loss, stall_count, log, result,
                   losses, updates, log_at, quantVars, gradVars,
                   solveVars, diodeVars, pairVars, memVars>>

PatternStep ==
    PatternStepWith(eqprop_gradient(TrainNet, args.dataset[p].inputs, weights,
                                    args.dataset[p].target, args.beta, None))

weights_at_return_stale(w, w1) == w

\* the weights an early return hands back: the vector named weights, which
\* the batch update (w to w1, in place) has already written
weights_at_return(w, w1) == w1

\* the rest of the epoch: batch update, plateau detection, logging and the
\* two early returns, where fresh holds the lists of predictions the fresh
\* solves at the updated weights can give
EpochEndWith(fresh) ==
    /\ pc = "patterns"
    /\ p = VLen(args.dataset)
    /\ LET w1       == batch_update(weights, grad_acc, args.lr)
           best1    == best_after(epoch_loss, best_loss, args.min_delta)
           stall1   == stall_after(epoch_loss, best_loss, stall_count, args.min_delta)
           periodic == log_due(epoch, args.log_interval, args.n_epochs)
           reason   == stop_reason(epoch_loss, stall1, args.patience)
       IN  /\ weights' = w1
           /\ best_loss' = best1
           /\ stall_count' = stall1
           /\ \E preds \in (IF periodic \/ reason # "for" THEN fresh ELSE {None}) :
                 log' = LET call == LogCall(epoch, epoch_loss, preds)
                            log1 == IF periodic THEN Append(log, call) ELSE log
                        IN  IF reason # "for" THEN Append(log1, call) ELSE log1
           /\ log_at' = IF periodic \/ reason # "for" THEN w1 ELSE None
           /\ pc' = reason
           /\ result' = IF reason = "Converged"
                        THEN TrainResult(weights_at_return(weights, w1),
                                         epoch_loss, TRUE, epoch)
                        ELSE IF reason = "Plateaued"
                        THEN TrainResult(weights_at_return(weights, w1),
                                         epoch_loss, FALSE, epoch)
                        ELSE None
           /\ epoch' = IF reason = "for" THEN epoch + 1 ELSE epoch
    /\ losses' = Append(losses, epoch_loss)
    /\ updates' = updates + 1
    /\ calls' = <<>>
    /\ UNCHANGED <<args, p, epoch_loss, grad_acc, quantVars, gradVars,
                   solveVars, diodeVars, pairVars, memVars>>

train_predictions ==
    log_predictions(TrainNet, args.dataset,
                    batch_update(weights, grad_acc, args.lr))

EpochEnd == EpochEndWith(train_predictions)

\* gradients and predictions an eqprop_gradient call may hand back, whatever
\* the solver did: no gradient or a pull on both weights; a prediction on
\* the target, a tenth of a volt off, or far off
AnyGrads ==
    {zeros(n_weights(TrainNet)),
     [w_idx \in Idx(n_weights(TrainNet)) |-> QInt(-15000)]}

AnyPreds == {QZero, Q(1, 10), QInt(1)}

AnyReturns ==
    [grad : AnyGrads, pred : AnyPreds, raised : {None}, nudge_pos : {None},
     nudge_neg : {None}, V_pos : {None}, V_neg : {None}]

any_predictions == {[k \in DOMAIN args.dataset |-> QZero]}

PatternAny == PatternStepWith(AnyReturns)

EpochEndAny == EpochEndWith(any_predictions)

\* the return after the loop; epoch_loss is unbound when no epoch ran
LoopExit ==
    /\ pc = "for"
    /\ ~epoch_in_range(epoch, args.n_epochs)
    /\ IF epoch_loss = None
       THEN /\ pc' = "raised"
            /\ result' = None
       ELSE /\ pc' = "ExhaustedEpochs"
            /\ result' = TrainResult(weights, epoch_loss, FALSE, args.n_epochs)
    /\ UNCHANGED <<args, epoch, p, weights, epoch_loss, grad_acc, best_loss,
                   stall_count, log, losses, updates, calls, log_at, quantVars,
                   gradVars,
                   solveVars, diodeVars, pairVars, memVars>>


(***************************************************************************)
(* Quantisation round trips (WeightParams, network.py).                    *)
(***************************************************************************)
\* resistances are sampled GridDiv times per tap step, from two steps below
\* tap N_taps to two steps above tap 0
GridDiv == 4

TapStep == Q(R_pot_full, N_taps)

GridResistances ==
    { QAdd(QInt(R_series), QMul(Q(k, GridDiv), TapStep)) :
        k \in (-2 * GridDiv) .. ((N_taps + 2) * GridDiv) }

EdgeResistances ==
    { QInt(R_min), QInt(R_max), QInt(R_series), QInt(0), QInt(-500),
      QInt(101100), QInt(1000000), Q(3181, 2) }

QuantInputs ==
    {Vec1(r) : r \in GridResistances \cup EdgeResistances}
        \cup {Vec2(a, b) : a \in EdgeResistances, b \in EdgeResistances}

QuantIdle ==
    /\ q_pc = "idle" /\ q_weights = None /\ q_first = None /\ q_second = None
    /\ t_tap = 0 /\ t_r = None /\ t_back = 0

QuantInit ==
    /\ q_first = None /\ q_second = None /\ t_r = None /\ t_back = 0
    /\ \/ q_pc = "weights" /\ q_weights \in QuantInputs /\ t_tap = 0
       \/ q_pc = "tap" /\ q_weights = None /\ t_tap \in 1 .. N_taps

QuantizeOnce ==
    /\ q_pc = "weights"
    /\ q_first' = quantize_weights(q_weights)
    /\ q_pc' = "once"
    /\ UNCHANGED <<q_weights, q_second, t_tap, t_r, t_back, trainVars, gradVars,
                   solveVars, diodeVars, pairVars, memVars>>

QuantizeAgain ==
    /\ q_pc = "once"
    /\ q_second' = quantize_weights(q_first.weights)
    /\ q_pc' = "twice"
    /\ UNCHANGED <<q_weights, q_first, t_tap, t_r, t_back, trainVars, gradVars,
                   solveVars, diodeVars, pairVars, memVars>>

TapToResistance ==
    /\ q_pc = "tap"
    /\ t_r' = tap_to_resistance(t_tap)
    /\ q_pc' = "tap_r"
    /\ UNCHANGED <<q_weights, q_first, q_second, t_tap, t_back, trainVars, gradVars,
                   solveVars, diodeVars, pairVars, memVars>>

ResistanceToTap ==
    /\ q_pc = "tap_r"
    /\ t_back' = resistance_to_tap(t_r)
    /\ q_pc' = "tap_back"
    /\ UNCHANGED <<q_weights, q_first, q_second, t_tap, t_r, trainVars, gradVars,
                   solveVars, diodeVars, pairVars, memVars>>

(***************************************************************************)
(* A single eqprop_gradient call.                                          *)
(***************************************************************************)
\* two clamped and two free nodes; a free-to-fixed resistor, a fixed-fixed
\* resistor, and a nudge on one output only
GradNet ==
    [n_fixed        |-> 2,
     n_free         |-> 2,
     connections    |-> [k \in Idx(4) |->
                           IF k = 0 THEN <<0, 2>>
                           ELSE IF k = 1 THEN <<3, 1>>
                           ELSE IF k = 2 THEN <<2, 3>>
                           ELSE <<0, 1>>],
     diode_nodes    |-> <<>>,
     output_pos_idx |-> 1,
     output_neg_idx |-> 0,
     nudge_signs    |-> [i \in {1} |-> 1],
     diode_params   |-> BAT42]

GradNets == {TrainNet, GradNet}

InputVolts == {QInt(1), QInt(4)}

Targets == {QZero, Q(3, 10)}

\* beta = 1e-5, and a negative beta
GradBetas == Betas \cup {Q(-1, 100000)}

\* resistances: 10 kOhm each, and a negative resistance each
GradWeights == {QInt(10000), QInt(-10000)}

GradCalls ==
    UNION { [net     : {net},
             inputs  : [Idx(net.n_fixed) -> InputVolts],
             weights : {[w_idx \in Idx(n_weights(net)) |-> w] : w \in GradWeights},
             target  : Targets,
             beta    : GradBetas,
             free_eq : {None} \cup GridVoltages(net.n_free)] : net \in GradNets }

GradIdle == g_pc = "idle" /\ g_call = None /\ g_ret = None

GradInit == g_pc = "call" /\ g_call \in GradCalls /\ g_ret = None

GradientCall ==
    /\ g_pc = "call"
    /\ g_ret' \in eqprop_gradient(g_call.net, g_call.inputs, g_call.weights,
                                  g_call.target, g_call.beta, g_call.free_eq)
    /\ g_pc' = IF g_ret'.raised = None THEN "returned" ELSE "raised"
    /\ UNCHANGED <<g_call, trainVars, quantVars,
                   solveVars, diodeVars, pairVars, memVars>>

(***************************************************************************)
(* A single solve_network call.                                            *)
(***************************************************************************)
\* Network(n_fixed, n_free, connections, diode_nodes), the other fields at
\* their defaults
Network(n_fixed, n_free, connections, diode_nodes) ==
    [n_fixed        |-> n_fixed,
     n_free         |-> n_free,
     connections    |-> connections,
     diode_nodes    |-> diode_nodes,
     output_pos_idx |-> 0,
     output_neg_idx |-> 1,
     nudge_signs    |-> <<>>,
     diode_params   |-> BAT42]

\* a network of one free node, its two output indices on that node
OneFree(net) == [net EXCEPT !.output_neg_idx = 0]

\* the largest number of sources of a voltage divider
MaxSources == 3

\* n sources into one free node; the resistors in flip are listed from the
\* free node to the source
Divider(n, flip) ==
    OneFree(Network(n, 1, [k \in Idx(n) |-> IF k \in flip THEN <<n, k>> ELSE <<k, n>>],
                    <<>>))

DividerNets ==
    {Divider(n, {}) : n \in 1 .. MaxSources} \cup {Divider(n, {0}) : n \in 1 .. MaxSources}

\* free node 1 has no resistor at all
FloatingNet == Network(1, 2, Vec1(<<0, 1>>), <<>>)

\* free nodes 1 and 2 are tied to each other only
FloatingPairNet == Network(1, 3, Vec2(<<0, 1>>, <<2, 3>>), <<>>)

\* a divider whose free node has a diode pair to the 2.5 V rail
DiodeDividerNet ==
    OneFree(Network(2, 1, Vec2(<<0, 2>>, <<1, 2>>), [free_idx \in {0} |-> Q(5, 2)]))

\* malformed networks: a negative endpoint, an endpoint past the last node,
\* a negative diode node
NegEndpointNet == OneFree(Network(2, 1, Vec2(<<0, 2>>, <<-1, 2>>), <<>>))

DanglingNet == OneFree(Network(2, 1, Vec2(<<0, 2>>, <<1, 5>>), <<>>))

NegDiodeNet ==
    OneFree(Network(2, 1, Vec2(<<0, 2>>, <<1, 2>>), [free_idx \in {-1} |-> Q(5, 2)]))

OtherNets ==
    {FloatingNet, FloatingPairNet, DiodeDividerNet, NegEndpointNet, DanglingNet,
     NegDiodeNet}

SolveVolts == {QZero, QInt(1), QInt(5)}

SolveWeights == {QInt(5000), QInt(10000), QInt(40000)}

SolveCalls ==
    UNION { [net     : {net},
             inputs  : [Idx(net.n_fixed) -> SolveVolts],
             weights : [Idx(n_weights(net)) -> SolveWeights],
             nudge   : {None},
             x0      : {None}] : net \in DividerNets }
    \cup
    UNION { [net     : {net},
             inputs  : [Idx(net.n_fixed) -> {QInt(1), QInt(5)}],
             weights : [Idx(n_weights(net)) -> {QInt(10000), QInt(-10000)}],
             nudge   : {None, [a \in Idx(net.n_free) |-> Q(1, 1000)]},
             x0      : {None, zeros(net.n_free)}]
            : net \in OtherNets \cup {Divider(2, {})} }

SolveIdle == s_pc = "idle" /\ s_call = None /\ s_ret = None /\ s_sols = <<>>

SolveInit == s_pc = "call" /\ s_call \in SolveCalls /\ s_ret = None /\ s_sols = <<>>

SolveCall ==
    /\ s_pc = "call"
    /\ \E run \in solve_network_run(s_call.net, s_call.inputs, s_call.weights,
                                     s_call.nudge, s_call.x0) :
          /\ s_sols' = run.sols
          /\ s_ret' = run.ret
    /\ s_pc' = IF Raised(s_ret') THEN "raised" ELSE "returned"
    /\ UNCHANGED <<s_call, trainVars, quantVars, gradVars, diodeVars, pairVars, memVars>>

(***************************************************************************)
(* A single evaluation of solve_network's kcl at a candidate state, and a  *)
(* single resistive_initial_guess call.                                    *)
(***************************************************************************)
KclNets == {GradNet, TrainNet, DiodeDividerNet, Divider(2, {0}), FloatingNet}

KclVolts == {QZero, QInt(1), QInt(5)}

KclWeights == {QInt(5000), QInt(10000)}

\* candidate free-node voltages: 0 V, 0.1 V and the 2.5 V rail
KclStates(n) == [Idx(n) -> {QZero, Q(1, 10), Q(5, 2)}]

KclCalls ==
    UNION { [net     : {net},
             inputs  : [Idx(net.n_fixed) -> KclVolts],
             weights : [Idx(n_weights(net)) -> KclWeights],
             nudge   : {None, [a \in Idx(net.n_free) |-> Q(a + 1, 1000)]},
             state   : KclStates(net.n_free)] : net \in KclNets }

GuessCalls ==
    UNION { [net     : {net},
             inputs  : [Idx(net.n_fixed) -> KclVolts],
             weights : [Idx(n_weights(net)) -> KclWeights]] : net \in KclNets }

KclInit ==
    /\ s_ret = None
    /\ s_sols = <<>>
    /\ \/ s_pc = "kcl" /\ s_call \in KclCalls
       \/ s_pc = "guess" /\ s_call \in GuessCalls

\* kcl(state), for the nudge solve_network hands it
KclCall ==
    /\ s_pc = "kcl"
    /\ s_ret' = kcl(s_call.net, s_call.inputs, s_call.weights,
                    IF s_call.nudge = None THEN zeros(s_call.net.n_free)
                    ELSE s_call.nudge,
                    s_call.state)
    /\ s_pc' = "residual"
    /\ UNCHANGED <<s_call, s_sols, trainVars, quantVars, gradVars, diodeVars, pairVars, memVars>>

\* resistive_initial_guess: its locals G_mat and I_vec at the return, and
\* the vector returned or the exception raised
GuessCall ==
    /\ s_pc = "guess"
    /\ s_ret' = [G_mat |-> G_mat(s_call.net, s_call.weights),
                 I_vec |-> I_vec(s_call.net, s_call.inputs, s_call.weights),
                 x     |-> resistive_initial_guess(s_call.net, s_call.inputs,
                                                   s_call.weights)]
    /\ s_pc' = IF Raised(s_ret'.x) THEN "raised" ELSE "guessed"
    /\ UNCHANGED <<s_call, s_sols, trainVars, quantVars, gradVars, diodeVars, pairVars, memVars>>

(***************************************************************************)
(* A single diode_current_into call.                                       *)
(***************************************************************************)
\* v_node - v_ref: around 0, around the clamp at 500 * N * VT = 14.2175 V,
\* and past the 20.2 V where an unclamped sinh leaves the doubles
DiodeOffsets ==
    LET mags == {Q(1, 1000), Q(1, 10), Q(3, 10), QInt(1), Q(5, 2), QInt(10),
                 QInt(14), Q(5687, 400), QInt(15), QInt(25), QInt(100)}
    IN  {QZero} \cup mags \cup {QNeg(m) : m \in mags}

DiodeRefs == {QZero, QInt(1), Q(5, 2)}

DiodeCalls ==
    { [v_node |-> QAdd(v_ref, d), v_ref |-> v_ref, params |-> BAT42] :
        v_ref \in DiodeRefs, d \in DiodeOffsets }

DiodeIdle == d_pc = "idle" /\ d_call = None /\ d_ret = None

DiodeInit == d_pc = "call" /\ d_call \in DiodeCalls /\ d_ret = None

DiodeCall ==
    /\ d_pc = "call"
    /\ d_ret' = diode_current_into(d_call.v_node, d_call.v_ref, d_call.params)
    /\ d_pc' = "returned"
    /\ UNCHANGED <<d_call, trainVars, quantVars, gradVars, solveVars, pairVars, memVars>>

(***************************************************************************)
(* train runs side by side (training.py).  Two runs are handed the same    *)
(* arguments, a third one any; each has its own locals, and numpy's        *)
(* module-level generator is the one object all of them could reach.       *)
(***************************************************************************)
RunIds == {1, 2, 3}

Seeds == {42, 7}

\* a stand-in for the Mersenne Twister's doubles scaled into [G_min, G_max]:
\* a fixed function of the seed and of the position in the seed's stream
StreamValues == <<Q(1, 50000), G_max, Q(1, 20000)>>

random_sample(seed, k) == StreamValues[((seed + k) % Len(StreamValues)) + 1]

\* np.random.RandomState(seed): a new generator at the start of seed's stream
RandomState(seed) == [id |-> "RandomState", seed |-> seed, pos |-> 0]

\* the generator behind np.random.uniform, seeded at import
NpRandom(seed) == [id |-> "np.random", seed |-> seed, pos |-> 0]

train_rng_module(seed, module_rng) == module_rng

\* rng = np.random.RandomState(seed): the generator train draws from
train_rng(seed, module_rng) == RandomState(seed)

\* rng.uniform(G_min, G_max, n): the next n values, and the generator after
uniform(rng, n) ==
    [values |-> [i \in Idx(n) |-> random_sample(rng.seed, rng.pos + i)],
     rng    |-> [rng EXCEPT !.pos = @ + n]]

\* scipy's root is a function of its arguments: of the voltages the model
\* allows a solve to return, one build returns the same one every time
returned_by_root(outcomes) == CHOOSE v \in outcomes : TRUE

\* grad_acc += grad; epoch_loss += 0.5 * (target - pred) ** 2
accumulate(prev, ret, target) ==
    IF prev.raised # None THEN prev
    ELSE IF ret.raised # None THEN [prev EXCEPT !.raised = ret.raised]
    ELSE [grad_acc   |-> VAdd(prev.grad_acc, ret.grad),
          epoch_loss |-> QAdd(prev.epoch_loss,
                              QMul(Q(1, 2), QSquare(QSub(target, ret.pred)))),
          raised     |-> None]

\* the dataset loop of one epoch at fixed weights
RECURSIVE dataset_pass(_, _, _, _, _)
dataset_pass(net, dataset, w, beta, n) ==
    IF n = 0
    THEN [grad_acc |-> zeros(n_weights(net)), epoch_loss |-> QZero, raised |-> None]
    ELSE CHOOSE acc \in
             { accumulate(prev, ret, dataset[n - 1].target) :
                 prev \in {dataset_pass(net, dataset, w, beta, n - 1)},
                 ret \in {returned_by_root(
                             eqprop_gradient(net, dataset[n - 1].inputs, w,
                                             dataset[n - 1].target, beta, None))} } :
             TRUE

\* a run before its first statement
new_run(a) ==
    [args |-> a, pc |-> "start", epoch |-> 0, weights |-> None,
     epoch_loss |-> None, best_loss |-> Inf, stall_count |-> 0, log |-> <<>>,
     result |-> None]

\* the rest of an epoch of the run st, after the dataset loop gave pass:
\* the updated weights w1, plateau detection, logging with the fresh
\* predictions preds, and the two early returns
epoch_end(st, pass, w1, preds) ==
    IF pass.raised # None THEN [st EXCEPT !.pc = "raised"]
    ELSE
    LET a        == st.args
        loss     == pass.epoch_loss
        best1    == best_after(loss, st.best_loss, a.min_delta)
        stall1   == stall_after(loss, st.best_loss, st.stall_count, a.min_delta)
        periodic == log_due(st.epoch, a.log_interval, a.n_epochs)
        reason   == stop_reason(loss, stall1, a.patience)
        call     == LogCall(st.epoch, loss, preds)
        log1     == IF periodic THEN Append(st.log, call) ELSE st.log
    IN  [args        |-> a,
         pc          |-> reason,
         epoch       |-> IF reason = "for" THEN st.epoch + 1 ELSE st.epoch,
         weights     |-> w1,
         epoch_loss  |-> loss,
         best_loss   |-> best1,
         stall_count |-> stall1,
         log         |-> IF reason # "for" THEN Append(log1, call) ELSE log1,
         result      |-> IF reason = "Converged"
                         THEN TrainResult(w1, loss, TRUE, st.epoch)
                         ELSE IF reason = "Plateaued"
                         THEN TrainResult(w1, loss, FALSE, st.epoch)
                         ELSE None]

\* the return after the loop of the run st; epoch_loss is unbound when no
\* epoch ran
run_return(st) ==
    IF st.epoch_loss = None THEN [st EXCEPT !.pc = "raised"]
    ELSE [st EXCEPT !.pc = "ExhaustedEpochs",
                    !.result = TrainResult(st.weights, st.epoch_loss, FALSE,
                                           st.args.n_epochs)]

\* the two-run arguments: the one-pattern dataset, any seed
PairArgs ==
    [dataset      : {Vec1(Pattern(Vec1(QInt(1)), Q(1, 10)))},
     n_epochs     : 0 .. MaxEpochs,
     lr           : LearningRates,
     beta         : Betas,
     patience     : Patiences,
     min_delta    : {Q(1, 1000000)},
     log_interval : LogIntervals,
     seed         : Seeds]

\* what the third run is handed
OtherArgs == {a \in PairArgs : a.n_epochs = 2 /\ a.patience = 2}

PairIdle == np_random = None /\ runs = None

PairInit ==
    /\ np_random = NpRandom(0)
    /\ \E a \in PairArgs, b \in OtherArgs :
          runs = [r \in RunIds |-> IF r = 3 THEN new_run(b) ELSE new_run(a)]

\* wp, rng, G_init and weights: the statements before the loop
RunStart(r) ==
    /\ runs[r].pc = "start"
    /\ LET rng  == train_rng(runs[r].args.seed, np_random)
           draw == uniform(rng, n_weights(TrainNet))
       IN  /\ runs' = [runs EXCEPT ![r] = [@ EXCEPT !.pc = "for",
                                                     !.weights = initial_weights(draw.values)]]
           /\ np_random' = IF rng.id = np_random.id THEN draw.rng ELSE np_random
    /\ UNCHANGED <<trainVars, quantVars, gradVars, solveVars, diodeVars,
                 memVars>>

\* one epoch of one run
RunEpoch(r) ==
    /\ runs[r].pc = "for"
    /\ runs[r].epoch < runs[r].args.n_epochs
    /\ \E pass \in {dataset_pass(TrainNet, runs[r].args.dataset, runs[r].weights,
                                 runs[r].args.beta, VLen(runs[r].args.dataset))} :
       \E w1 \in (IF pass.raised # None THEN {None}
                  ELSE {batch_update(runs[r].weights, pass.grad_acc,
                                     runs[r].args.lr)}) :
       \E preds \in (IF pass.raised # None THEN {None}
                     ELSE {returned_by_root(
                               log_predictions(TrainNet, runs[r].args.dataset, w1))}) :
          runs' = [runs EXCEPT ![r] = epoch_end(@, pass, w1, preds)]
    /\ UNCHANGED <<np_random, trainVars, quantVars, gradVars, solveVars, diodeVars,
                 memVars>>

\* the return after the loop of one run
RunReturn(r) ==
    /\ runs[r].pc = "for"
    /\ runs[r].epoch = runs[r].args.n_epochs
    /\ runs' = [runs EXCEPT ![r] = run_return(@)]
    /\ UNCHANGED <<np_random, trainVars, quantVars, gradVars, solveVars, diodeVars,
                 memVars>>

(***************************************************************************)
(* Objects.  A list or an array is an object with an identity: a call      *)
(* gets references to the caller's objects, creates objects of its own,    *)
(* and writes into objects in place.  The memory is the objects in the     *)
(* order they were created, and the set of the ones written in place       *)
(* since the call began.  The networks here are well formed and the        *)
(* weights positive, so no call raises.  One of the root-finder's outcomes *)
(* is followed, since they differ in values and not in the objects used.   *)
(***************************************************************************)
Ref(id) == <<id>>

Memory(objs) == [objs |-> objs, writes |-> {}]

\* a new list or array with the value val
new(m, val) == [objs |-> Append(m.objs, val), writes |-> m.writes]

\* the reference of the object created last
newest(m) == Ref(Len(m.objs))

load(m, ref) == m.objs[ref[1]]

\* an assignment into the object: a[k] = ..., a[k] += ..., a += ...
store(m, ref, val) ==
    [objs |-> [m.objs EXCEPT ![ref[1]] = val], writes |-> m.writes \cup {ref}]

\* np.zeros(...) and the assignments that fill it
filled(m, val) ==
    CHOOSE m2 \in {store(m1, newest(m1), val) : m1 \in {new(m, val)}} : TRUE

\* what a call leaves behind: the memory, and the value it returns
Outcome(m, ret) == [mem |-> m, ret |-> ret]

iadd_into_operand(m, target, operand) ==
    store(m, operand, VAdd(load(m, target), load(m, operand)))

\* target += operand
iadd(m, target, operand) ==
    store(m, target, VAdd(load(m, target), load(m, operand)))

\* one evaluation of solve_network's kcl: all_v and I are created, I is
\* filled by the loops and the nudge is added to it (the diode currents,
\* which the loop over diode_nodes adds, are left out of I's value here)
kcl_at(m, net, fixed, w, nudge, state) ==
    LET n     == load(m, net)
        all_v == new(m, VConcat(load(m, fixed), load(m, state)))
        lin   == kcl(n, load(m, fixed), load(m, w), zeros(n.n_free),
                     load(m, state))
    IN  CHOOSE o \in { Outcome(iadd(m1, newest(m1), nudge), newest(m1)) :
                         m1 \in {filled(all_v, [a \in Idx(n.n_free) |-> lin[a].lin])} }
               : TRUE

\* solve_network on references: nudge and x0 may be None
solve_network_at(m, net, inputs, w, nudge, x0) ==
    LET n    == load(m, net)
        x    == returned_by_root(
                    solve_network(n, load(m, inputs), load(m, w),
                                  IF nudge = None THEN None ELSE load(m, nudge),
                                  IF x0 = None THEN None ELSE load(m, x0)))
    IN  CHOOSE o \in
          { Outcome(m5, newest(m5)) :
              m5 \in UNION {
                { new(kcl_at(m3, net, Ref(Len(m.objs) + 1), w,
                             IF nudge = None THEN newest(m2) ELSE nudge,
                             IF x0 = None THEN newest(m3) ELSE x0).mem, x)
                  : m3 \in { IF x0 = None
                             THEN new(m2, resistive_initial_guess(
                                              n, load(m, inputs), load(m, w)))
                             ELSE m2 } }
                : m2 \in { IF nudge = None
                           THEN new(m1, zeros(n.n_free))
                           ELSE m1 : m1 \in {new(m, load(m, inputs))} } } }
          : TRUE

\* the nudged part of eqprop_gradient, from the memory m and the free
\* equilibrium fe
gradient_at(m, net, inputs, w, target, beta, fe) ==
    LET n     == load(m, net)
        pred  == prediction(n, load(m, fe))
        error == QSub(target, pred)
    IN  CHOOSE o \in UNION UNION UNION {{{
          { Outcome(filled(new(new(neg.mem, VConcat(load(m, inputs), V_pos)),
                               VConcat(load(m, inputs), V_neg)),
                           [w_idx \in Idx(n_weights(n)) |->
                               gradient_entry(VConcat(load(m, inputs), V_pos),
                                              VConcat(load(m, inputs), V_neg),
                                              beta, n.connections[w_idx])]),
                    [grad    |-> Ref(Len(neg.mem.objs) + 3),
                     pred    |-> pred,
                     free_eq |-> fe])
            : V_pos \in {load(neg.mem, pos.ret)}, V_neg \in {load(neg.mem, neg.ret)} }
          : neg \in {solve_network_at(pos.mem, net, inputs, w,
                                      Ref(Len(m.objs) + 2), fe)} }
          : pos \in {solve_network_at(m2, net, inputs, w,
                                      Ref(Len(m.objs) + 1), fe)} }
          : m2 \in {filled(m1, nudge_currents(n, QNeg(beta), error)) :
                      m1 \in {filled(m, nudge_currents(n, beta, error))}} }
        : TRUE

\* the free equilibrium the caller supplied is the one used and returned
gradient_free_eq(m, free_eq) == Outcome(m, free_eq)

\* eqprop_gradient on references: free_eq may be None
eqprop_gradient_at(m, net, inputs, w, target, beta, free_eq) ==
    CHOOSE o \in
      { gradient_at(free.mem, net, inputs, w, target, beta, free.ret) :
          free \in { IF free_eq = None
                     THEN solve_network_at(m, net, inputs, w, None, None)
                     ELSE gradient_free_eq(m, free_eq) } }
      : TRUE

\* for inputs, target in dataset, up to the pattern k: the memory, and the
\* epoch_loss so far
RECURSIVE patterns_at(_, _, _, _, _, _, _)
patterns_at(m, net, dataset, w, beta, acc, k) ==
    IF k = 0 THEN Outcome(m, QZero)
    ELSE CHOOSE o \in UNION {
           { Outcome(iadd(g.mem, acc, g.ret.grad),
                     QAdd(prev.ret,
                          QMul(Q(1, 2),
                               QSquare(QSub(load(m, dataset)[k - 1].target,
                                            g.ret.pred)))))
             : g \in {eqprop_gradient_at(prev.mem, net,
                                         load(m, dataset)[k - 1].inputs, w,
                                         load(m, dataset)[k - 1].target, beta, None)} }
           : prev \in {patterns_at(m, net, dataset, w, beta, acc, k - 1)} }
         : TRUE

\* preds = [net.prediction(solve_network(net, inp, weights)) for inp, _ in
\* dataset], up to the pattern k: the memory after the solves
RECURSIVE preds_at(_, _, _, _, _)
preds_at(m, net, dataset, w, k) ==
    IF k = 0 THEN m
    ELSE CHOOSE m2 \in
           { solve_network_at(m1, net, load(m, dataset)[k - 1].inputs, w,
                              None, None).mem
             : m1 \in {preds_at(m, net, dataset, w, k - 1)} }
         : TRUE

\* train's loop from the epoch e on, a being train's keyword arguments
RECURSIVE epochs_at(_, _, _, _, _, _, _, _, _)
epochs_at(m, net, dataset, w, a, e, loss, best, stall) ==
    IF ~epoch_in_range(e, a.n_epochs)
    THEN Outcome(m, TrainResult(w, loss, FALSE, a.n_epochs))
    ELSE CHOOSE o \in UNION UNION {{
           { IF reason = "for"
             THEN epochs_at(m3, net, dataset, w, a, e + 1, pass.ret,
                            best_after(pass.ret, best, a.min_delta),
                            stall_after(pass.ret, best, stall, a.min_delta))
             ELSE Outcome(preds_at(m3, net, dataset, w,
                                   VLen(load(m, dataset))),
                          TrainResult(w, pass.ret, reason = "Converged", e))
             : m3 \in { IF log_due(e, a.log_interval, a.n_epochs)
                        THEN preds_at(m2, net, dataset, w,
                                      VLen(load(m, dataset)))
                        ELSE m2 },
               reason \in { stop_reason(pass.ret,
                                        stall_after(pass.ret, best, stall,
                                                    a.min_delta),
                                        a.patience) } }
           : m2 \in { store(pass.mem, w,
                            batch_update(load(pass.mem, w),
                                         load(pass.mem, Ref(Len(m.objs) + 1)),
                                         a.lr)) } }
           : pass \in { patterns_at(m1, net, dataset, w, a.beta,
                                    Ref(Len(m.objs) + 1),
                                    VLen(load(m, dataset))) :
                          m1 \in {new(m, zeros(n_weights(load(m, net))))} } }
         : TRUE

\* train on references: G_init and weights are created, then the loop runs
train_at(m, net, dataset, a) ==
    CHOOSE o \in { epochs_at(m2, net, dataset, newest(m2), a, 0, None, Inf, 0) :
                     m2 \in {new(new(m, a.G_init), initial_weights(a.G_init))} }
           : TRUE

\* the caller's objects of a solve_network call: the network, the inputs,
\* the weights, and a nudge and a start when they are supplied
SolveObjects ==
    UNION { { <<net, inputs, w>> \o nudge \o x0 :
                inputs  \in [Idx(net.n_fixed) -> InputVolts],
                w \in {[w_idx \in Idx(n_weights(net)) |-> QInt(10000)]},
                nudge   \in {<<>>, <<[a \in Idx(net.n_free) |-> Q(a + 1, 1000)]>>},
                x0      \in {<<>>} \cup {<<v>> : v \in GridVoltages(net.n_free)} }
            : net \in GradNets }

SolveAtCalls ==
    { [mem     |-> Memory(objs),
       net     |-> Ref(1),
       inputs  |-> Ref(2),
       weights |-> Ref(3),
       nudge   |-> IF Len(objs) >= 4 /\ objs[4][0] = Q(1, 1000) THEN Ref(4) ELSE None,
       x0      |-> IF Len(objs) >= 4 /\ objs[Len(objs)][0] # Q(1, 1000)
                   THEN Ref(Len(objs)) ELSE None] : objs \in SolveObjects }

\* the caller's objects of an eqprop_gradient call
GradientObjects ==
    UNION { { <<net, inputs, w>> \o free_eq :
                inputs  \in [Idx(net.n_fixed) -> InputVolts],
                w \in {[w_idx \in Idx(n_weights(net)) |-> QInt(10000)]},
                free_eq \in {<<>>} \cup {<<v>> : v \in GridVoltages(net.n_free)} }
            : net \in GradNets }

GradientAtCalls ==
    { [mem     |-> Memory(objs),
       net     |-> Ref(1),
       inputs  |-> Ref(2),
       weights |-> Ref(3),
       target  |-> target,
       beta    |-> beta,
       free_eq |-> IF Len(objs) = 4 THEN Ref(4) ELSE None]
      : objs \in GradientObjects, target \in Targets, beta \in Betas }

\* the caller's objects of a train call: the network, the input list of
\* each pattern, and the dataset, a list of (inputs, target) tuples
TrainAtCalls ==
    { [mem     |-> Memory(<<TrainNet>>
                          \o [k \in 1 .. VLen(a.dataset) |-> a.dataset[k - 1].inputs]
                          \o <<[k \in Idx(VLen(a.dataset)) |->
                                  Pattern(Ref(k + 2), a.dataset[k].target)]>>),
       net     |-> Ref(1),
       dataset |-> Ref(VLen(a.dataset) + 2),
       kwargs  |-> a] : a \in {a \in TrainArgs : a.n_epochs \in {1, 2}} }

MemIdle == m_pc = "idle" /\ m_call = None /\ m_mem = None /\ m_ret = None

MemInit ==
    /\ \/ m_pc = "solve_network" /\ m_call \in SolveAtCalls
       \/ m_pc = "eqprop_gradient" /\ m_call \in GradientAtCalls
       \/ m_pc = "train" /\ m_call \in TrainAtCalls
    /\ m_mem = m_call.mem
    /\ m_ret = None

SolveAt ==
    /\ m_pc = "solve_network"
    /\ \E o \in {solve_network_at(m_mem, m_call.net, m_call.inputs, m_call.weights,
                                   m_call.nudge, m_call.x0)} :
          m_mem' = o.mem /\ m_ret' = o.ret
    /\ m_pc' = "solve_network returned"
    /\ UNCHANGED <<m_call, trainVars, quantVars, gradVars, solveVars, diodeVars,
                   pairVars>>

GradientAt ==
    /\ m_pc = "eqprop_gradient"
    /\ \E o \in {eqprop_gradient_at(m_mem, m_call.net, m_call.inputs, m_call.weights,
                                     m_call.target, m_call.beta, m_call.free_eq)} :
          m_mem' = o.mem /\ m_ret' = o.ret
    /\ m_pc' = "eqprop_gradient returned"
    /\ UNCHANGED <<m_call, trainVars, quantVars, gradVars, solveVars, diodeVars,
                   pairVars>>

TrainAt ==
    /\ m_pc = "train"
    /\ \E o \in {train_at(m_mem, m_call.net, m_call.dataset, m_call.kwargs)} :
          m_mem' = o.mem /\ m_ret' = o.ret
    /\ m_pc' = "train returned"
    /\ UNCHANGED <<m_call, trainVars, quantVars, gradVars, solveVars, diodeVars,
                   pairVars>>

(***************************************************************************)
(* Specifications: a train run, and a train run with the solver left open; *)
(* quantisation round trips; one gradient call; one solve; one diode       *)
(* current; one kcl evaluation or linear guess; train runs side by side;   *)
(* one call on objects with identities.                                    *)
(***************************************************************************)
Init == TrainInit /\ QuantIdle /\ GradIdle /\ SolveIdle /\ DiodeIdle /\ PairIdle /\ MemIdle

Next == EpochBegin \/ PatternStep \/ EpochEnd \/ LoopExit

Spec == Init /\ [][Next]_vars

\* train with the solver left open: each gradient call returns, with any of
\* a few gradients and predictions.  The interpreter runs train's statements
\* one after another, so a step that can be taken is taken
NextLoop == EpochBegin \/ PatternAny \/ EpochEndAny \/ LoopExit

SpecLoop == Init /\ [][NextLoop]_vars /\ WF_vars(NextLoop)

InitQuant == TrainIdle /\ QuantInit /\ GradIdle /\ SolveIdle /\ DiodeIdle /\ PairIdle /\ MemIdle

NextQuant == QuantizeOnce \/ QuantizeAgain \/ TapToResistance \/ ResistanceToTap

SpecQuant == InitQuant /\ [][NextQuant]_vars

InitGrad == TrainIdle /\ QuantIdle /\ GradInit /\ SolveIdle /\ DiodeIdle /\ PairIdle /\ MemIdle

NextGrad == GradientCall

SpecGrad == InitGrad /\ [][NextGrad]_vars

InitSolve == TrainIdle /\ QuantIdle /\ GradIdle /\ SolveInit /\ DiodeIdle /\ PairIdle /\ MemIdle

NextSolve == SolveCall

SpecSolve == InitSolve /\ [][NextSolve]_vars

InitDiode == TrainIdle /\ QuantIdle /\ GradIdle /\ SolveIdle /\ DiodeInit /\ PairIdle /\ MemIdle

NextDiode == DiodeCall

SpecDiode == InitDiode /\ [][NextDiode]_vars

InitKcl == TrainIdle /\ QuantIdle /\ GradIdle /\ KclInit /\ DiodeIdle /\ PairIdle /\ MemIdle

NextKcl == KclCall \/ GuessCall

SpecKcl == InitKcl /\ [][NextKcl]_vars

InitPair == TrainIdle /\ QuantIdle /\ GradIdle /\ SolveIdle /\ DiodeIdle /\ PairInit /\ MemIdle

StartRun == \E r \in RunIds : RunStart(r)

EpochRun == \E r \in RunIds : RunEpoch(r)

ReturnRun == \E r \in RunIds : RunReturn(r)

NextPair == StartRun \/ EpochRun \/ ReturnRun

SpecPair == InitPair /\ [][NextPair]_vars

InitMem == TrainIdle /\ QuantIdle /\ GradIdle /\ SolveIdle /\ DiodeIdle /\ PairIdle /\ MemInit

NextMem == SolveAt \/ GradientAt \/ TrainAt

SpecMem == InitMem /\ [][NextMem]_vars


(***************************************************************************)
(* Properties.                                                             *)
(***************************************************************************)
InRange(w) ==
    \A i \in DOMAIN w : QLe(QInt(R_min), w[i]) /\ QLe(w[i], QInt(R_max))

LastLoss == losses[Len(losses)]

\* best_loss and the length of the trailing run of non-improving epochs, as
\* the first k entries of a loss history h determine them
RECURSIVE BestOf(_, _, _)
BestOf(h, k, min_delta) ==
    IF k = 0 THEN Inf
    ELSE LET b == BestOf(h, k - 1, min_delta)
         IN  IF FLt(h[k], FSub(b, min_delta)) THEN h[k] ELSE b

RECURSIVE RunOf(_, _, _)
RunOf(h, k, min_delta) ==
    IF k = 0 THEN 0
    ELSE IF FLt(h[k], FSub(BestOf(h, k - 1, min_delta), min_delta)) THEN 0
    ELSE 1 + RunOf(h, k - 1, min_delta)

\* C1: every weight of train lies in [R_min, R_max] after the seeded
\* initialisation and after every batch update, and so does every weight of
\* the returned TrainResult.
C1_WeightsInRange ==
    /\ InRange(weights)
    /\ result # None => InRange(result.weights)

\* a run that returned a weight clipped to G_min (resistance R_max) by an update
C1_Witness ==
    /\ result # None
    /\ updates >= 1
    /\ \E i \in DOMAIN result.weights :
          result.weights[i] = QInt(R_max) /\ args.G_init[i] # G_min

\* C2: an epoch whose loss is below 0.005 is the last one executed and train
\* returns converged = true with final_loss < 0.005, also when the plateau
\* condition holds in that epoch; converged = true is returned only then.
C2_ConvergedStop ==
    /\ \A k \in 1 .. (Len(losses) - 1) : ~QLt(losses[k], LossThreshold)
    /\ (Len(losses) > 0 /\ QLt(LastLoss, LossThreshold))
          => /\ pc = "Converged"
             /\ result # None
             /\ result.converged
             /\ result.final_loss = LastLoss
             /\ QLt(result.final_loss, LossThreshold)
    /\ (result # None /\ result.converged)
          => Len(losses) > 0 /\ QLt(LastLoss, LossThreshold)

\* converged in an epoch that also completed `patience` stalled epochs
C2_Witness ==
    /\ pc = "Converged"
    /\ result.converged
    /\ stall_count >= args.patience

\* C3: with patience >= 1, an epoch improves iff its loss is strictly below
\* best_loss - min_delta, best_loss being the loss of the latest improving
\* epoch; train stops with converged = false at the first epoch completing
\* `patience` consecutive non-improving epochs whose loss is not below 0.005,
\* and never stops for plateau earlier.
C3_PlateauStop ==
    args.patience >= 1 =>
        LET n   == Len(losses)
            run == RunOf(losses, n, args.min_delta)
        IN  /\ stall_count = run
            /\ best_loss = BestOf(losses, n, args.min_delta)
            /\ pc = "Plateaued"
                  => /\ run = args.patience
                     /\ result # None
                     /\ ~result.converged
                     /\ ~QLt(LastLoss, LossThreshold)
            /\ (n > 0 /\ run >= args.patience /\ ~QLt(LastLoss, LossThreshold))
                  => pc = "Plateaued"
            /\ pc \in {"for", "patterns", "ExhaustedEpochs"} => run < args.patience

\* a plateau stop after two stalled epochs that followed an improving one
C3_Witness ==
    /\ pc = "Plateaued"
    /\ args.patience = 2
    /\ Len(losses) = 3
    /\ losses[1] # losses[2]

\* C4: for every n_epochs >= 0, when neither early return triggers in any
\* epoch, train returns a TrainResult with converged = false and
\* epochs_run = n_epochs.
C4_ExhaustedReturns ==
    pc \in {"ExhaustedEpochs", "raised"}
        => /\ result # None
           /\ ~result.converged
           /\ result.epochs_run = args.n_epochs

\* C5: in every terminal state epochs_run is the number of epochs executed,
\* the number of batch weight updates performed.
C5_EpochsRunCounts ==
    result # None => result.epochs_run = updates

\* C6: quantize_weights is idempotent, in the resistances and in the taps,
\* for resistances inside or outside [R_min, R_max].
C6_Idempotent ==
    q_pc = "twice"
        => /\ q_second.weights = q_first.weights
           /\ q_second.taps = q_first.taps

\* a second round trip of a weight above R_max that the first one moved
C6_Witness ==
    /\ q_pc = "twice"
    /\ \E i \in DOMAIN q_weights :
          /\ QLt(QInt(R_max), q_weights[i])
          /\ q_first.weights[i] # q_weights[i]

\* C7: resistance_to_tap(tap_to_resistance(t)) = t for every tap in 1..N_taps.
C7_RightInverse ==
    q_pc = "tap_back" => t_back = t_tap

\* the round trip of the last tap
C7_Witness ==
    /\ q_pc = "tap_back"
    /\ t_tap = N_taps
    /\ t_r = QInt(R_series)

\* C8: for every resistance, resistance_to_tap is in 1..N_taps and is a tap
\* nearest to it.
C8_NearestTap ==
    q_pc = "once" =>
        \A i \in DOMAIN q_weights :
            /\ q_first.taps[i] \in 1 .. N_taps
            /\ \A t \in 1 .. N_taps :
                  QLe(QAbs(QSub(tap_to_resistance(q_first.taps[i]), q_weights[i])),
                      QAbs(QSub(tap_to_resistance(t), q_weights[i])))

\* a resistance below R_series, clamped to the last tap
C8_Witness ==
    /\ q_pc = "once"
    /\ QLt(q_weights[0], QInt(R_series))
    /\ q_first.taps[0] = N_taps

\* C9: a weight strictly inside (R_min, R_max) moves by at most half a tap
\* step, R_pot_full / N_taps / 2, when quantized.
C9_HalfStepBound ==
    q_pc = "once" =>
        \A i \in DOMAIN q_weights :
            (QLt(QInt(R_min), q_weights[i]) /\ QLt(q_weights[i], QInt(R_max)))
                => QLe(QAbs(QSub(q_weights[i], q_first.weights[i])),
                       QDiv(QDiv(QInt(R_pot_full), QInt(N_taps)), QInt(2)))

\* C10: the gradient has one entry per connection, in connection order, and
\* entry k of connection (i, j) is ((Vpos[i] - Vpos[j])^2 - (Vneg[i] -
\* Vneg[j])^2) / (4 beta), a fixed node having its input voltage in both
\* phases and a free node its nudged equilibrium voltage.
C10_GradientFormula ==
    g_pc = "returned" =>
        LET net    == g_call.net
            Vpos(i) == IF i < net.n_fixed THEN g_call.inputs[i]
                       ELSE g_ret.V_pos[i - net.n_fixed]
            Vneg(i) == IF i < net.n_fixed THEN g_call.inputs[i]
                       ELSE g_ret.V_neg[i - net.n_fixed]
        IN  /\ DOMAIN g_ret.grad = DOMAIN net.connections
            /\ \A k \in DOMAIN net.connections :
                  LET i == net.connections[k][1]
                      j == net.connections[k][2]
                  IN  QMul(g_ret.grad[k], QMul(QInt(4), g_call.beta))
                        = QSub(QSquare(QSub(Vpos(i), Vpos(j))),
                               QSquare(QSub(Vneg(i), Vneg(j))))

\* a call whose two nudged equilibria differ across the free-to-fixed resistor
C10_Witness ==
    /\ g_pc = "returned"
    /\ g_call.net = GradNet
    /\ g_ret.grad[1] # QZero
    /\ g_ret.grad[3] = QZero

\* a call on a voltage divider: one free node, every resistor between it and
\* a fixed node, positive resistances, no diode, no nudge, the default x0
IsDividerCall(c) ==
    /\ c.net.n_free = 1
    /\ DOMAIN c.net.diode_nodes = {}
    /\ c.nudge = None
    /\ c.x0 = None
    /\ n_weights(c.net) >= 1
    /\ \A k \in DOMAIN c.net.connections :
          /\ QLt(QZero, c.weights[k])
          /\ \E f \in Idx(c.net.n_fixed) :
                c.net.connections[k] \in {<<f, c.net.n_fixed>>, <<c.net.n_fixed, f>>}

\* sum(V_i / R_i) / sum(1 / R_i) over the resistors of a divider
WeightedAverage(c) ==
    LET src(k) == IF c.net.connections[k][1] = c.net.n_fixed
                  THEN c.net.connections[k][2] ELSE c.net.connections[k][1]
    IN  QDiv(VSum([k \in DOMAIN c.net.connections |->
                     QDiv(c.inputs[src(k)], c.weights[k])]),
             VSum([k \in DOMAIN c.net.connections |-> QRecip(c.weights[k])]))

\* C11: on a voltage divider with any number of sources and any positive
\* resistances, solve_network returns the conductance-weighted average of
\* the fixed voltages: the linear pre-solve yields exactly that value and the
\* KCL residual is zero there.
C11_VoltageDivider ==
    (s_pc # "call" /\ IsDividerCall(s_call)) =>
        LET avg == Vec1(WeightedAverage(s_call))
        IN  /\ s_pc = "returned"
            /\ s_ret = avg
            /\ resistive_initial_guess(s_call.net, s_call.inputs, s_call.weights) = avg
            /\ residual_zero(kcl(s_call.net, s_call.inputs, s_call.weights,
                                 zeros(1), avg))

\* three sources of different voltages through different resistors, one of
\* them listed from the free node to its source
C11_Witness ==
    /\ s_pc = "returned"
    /\ IsDividerCall(s_call)
    /\ s_call.net.n_fixed = 3
    /\ s_call.net.connections[0] = <<3, 0>>
    /\ s_call.inputs = Vec3(QInt(5), QInt(0), QInt(1))
    /\ s_call.weights = Vec3(QInt(5000), QInt(10000), QInt(40000))
    /\ s_ret = Vec1(Q(41, 13))

\* every connection endpoint is a global node index, and every free-node
\* index of diode_nodes, nudge_signs and the outputs is in [0, n_free)
WellFormed(net) ==
    /\ \A k \in DOMAIN net.connections :
          /\ net.connections[k][1] \in Idx(net.n_fixed + net.n_free)
          /\ net.connections[k][2] \in Idx(net.n_fixed + net.n_free)
    /\ DOMAIN net.diode_nodes \subseteq Idx(net.n_free)
    /\ DOMAIN net.nudge_signs \subseteq Idx(net.n_free)
    /\ net.output_pos_idx \in Idx(net.n_free)
    /\ net.output_neg_idx \in Idx(net.n_free)

\* the nodes joined to a node of S by a chain of resistors
RECURSIVE Grounded(_, _)
Grounded(net, S) ==
    LET T == S \cup {net.connections[k][1] :
                        k \in {k \in DOMAIN net.connections : net.connections[k][2] \in S}}
               \cup {net.connections[k][2] :
                        k \in {k \in DOMAIN net.connections : net.connections[k][1] \in S}}
    IN  IF T = S THEN S ELSE Grounded(net, T)

\* some free node has no resistive path to any fixed node
HasFloatingNode(net) ==
    \E a \in net.n_fixed .. (net.n_fixed + net.n_free - 1) :
        a \notin Grounded(net, Idx(net.n_fixed))

AllPositive(w) == \A k \in DOMAIN w : QLt(QZero, w[k])

\* C12: when some free node has no resistive path to any fixed node, every
\* solve_network call reports the singular system instead of returning
\* voltages, with or without an initial guess x0.
C12_SingularReported ==
    (/\ s_pc # "call"
     /\ WellFormed(s_call.net)
     /\ AllPositive(s_call.weights)
     /\ HasFloatingNode(s_call.net))
        => s_pc = "raised" /\ s_ret = LinAlgError

\* C13: a Network with a connection endpoint outside [0, n_fixed + n_free)
\* or a diode, nudge or output index outside [0, n_free) is rejected with an
\* error; no solve computes a result with it (the resistances being valid).
C13_MalformedRejected ==
    (s_pc # "call" /\ AllPositive(s_call.weights) /\ ~WellFormed(s_call.net))
        => s_pc = "raised"

\* C14: eqprop_gradient rejects beta <= 0 and any resistance <= 0 before any
\* equilibrium solve; no gradient is produced for such inputs.
C14_NonPositiveRejected ==
    (/\ g_pc # "call"
     /\ \/ QLe(g_call.beta, QZero)
        \/ ~AllPositive(g_call.weights))
        => g_pc = "raised" /\ g_ret.free_eq = None

\* (v_node - v_ref) / (N * VT), before clamping
normalised(c) == QDiv(QSub(c.v_node, c.v_ref), QMul(c.params.N, c.params.VT))

\* the node voltage whose normalised argument is x
at_argument(c, x) == QAdd(c.v_ref, QMul(x, QMul(c.params.N, c.params.VT)))

\* C17: diode_current_into is -2 Is sinh(x), x = (v_node - v_ref) / (N VT)
\* clamped to [-500, 500]: finite for every input, zero at v_node = v_ref,
\* odd in v_node - v_ref, non-increasing in v_node, and the same beyond the
\* clamp as at the clamp boundary.
C17_DiodeCurrent ==
    d_pc = "returned" =>
        LET c == d_call
            x == normalised(c)
        IN  /\ d_ret = SinhTerm(QMul(QInt(-2), c.params.Is),
                                QClip(x, QInt(-500), QInt(500)))
            /\ SinhFinite(d_ret)
            /\ c.v_node = c.v_ref => SinhIsZero(d_ret)
            /\ diode_current_into(QSub(QAdd(c.v_ref, c.v_ref), c.v_node), c.v_ref,
                                  c.params) = SinhNeg(d_ret)
            /\ \A o \in DiodeCalls :
                  (o.v_ref = c.v_ref /\ QLe(c.v_node, o.v_node))
                      => SinhLe(diode_current_into(o.v_node, o.v_ref, o.params), d_ret)
            /\ QLe(QInt(500), x)
                  => d_ret = diode_current_into(at_argument(c, QInt(500)), c.v_ref,
                                                c.params)
            /\ QLe(x, QInt(-500))
                  => d_ret = diode_current_into(at_argument(c, QInt(-500)), c.v_ref,
                                                c.params)

\* a node 100 V above its rail: the argument, about 3517, is far past the
\* clamp and past the range of sinh in doubles
C17_Witness ==
    /\ d_pc = "returned"
    /\ d_call.v_ref = Q(5, 2)
    /\ QSub(d_call.v_node, d_call.v_ref) = QInt(100)
    /\ d_ret.x = QInt(500)

Terminal == pc \in {"Converged", "Plateaued", "ExhaustedEpochs"}

\* the executed epoch e is one the callback is due for: a multiple of
\* log_interval, or the final epoch executed
LogEpoch(e) ==
    \/ e % args.log_interval = 0
    \/ e = args.n_epochs - 1
    \/ Terminal /\ e = Len(losses) - 1

\* C16: the log callback is invoked for every executed epoch whose index is a
\* multiple of log_interval and for the final epoch executed, and for no
\* other epoch; each invocation carries that epoch's index and accumulated
\* loss and one prediction per dataset pattern, solved at the current weights.
C16_LogCalls ==
    LET n == Len(losses)
    IN  /\ {log[i].epoch : i \in 1 .. Len(log)} = {e \in 0 .. (n - 1) : LogEpoch(e)}
        /\ \A i \in 1 .. Len(log) :
              /\ log[i].loss = losses[log[i].epoch + 1]
              /\ DOMAIN log[i].preds = DOMAIN args.dataset
              /\ \A j \in 1 .. (i - 1) : log[j].epoch <= log[i].epoch
        /\ (n > 0 /\ LogEpoch(n - 1))
              => /\ log_at = weights
                 /\ log[Len(log)].epoch = n - 1
                 /\ log[Len(log)].preds \in log_predictions(TrainNet, args.dataset, weights)
        /\ (n > 0 /\ ~LogEpoch(n - 1)) => log_at = None

\* a run of two epochs that neither early return ended: epoch 1 is no
\* multiple of log_interval and is logged as the final epoch, after epoch 0
C16_Witness ==
    /\ pc = "ExhaustedEpochs"
    /\ args.n_epochs = 2
    /\ args.log_interval = 2
    /\ Len(log) = 2
    /\ log[1].epoch = 0
    /\ log[2].epoch = 1
    /\ log[1].loss # log[2].loss

\* sum over the calls cs of an epoch of 0.5 * (target - pred)^2
RECURSIVE LossSum(_, _, _)
LossSum(cs, dataset, n) ==
    IF n = 0 THEN QZero
    ELSE QAdd(LossSum(cs, dataset, n - 1),
              QMul(Q(1, 2), QSquare(QSub(dataset[n - 1].target, cs[n].pred))))

\* sum over the calls cs of an epoch of the gradient entry k
RECURSIVE GradSum(_, _, _)
GradSum(cs, k, n) ==
    IF n = 0 THEN QZero ELSE QAdd(GradSum(cs, k, n - 1), cs[n].grad[k])

\* C20: within an epoch every pattern's gradient and loss are computed with
\* the weights at the start of the epoch; the weights change only at the end
\* of an epoch, once, to 1 / clip(1/R_k - lr * (sum of the patterns' grad_k),
\* G_min, G_max), the sum not divided by the dataset size; the epoch loss is
\* the plain sum of 0.5 * (target - prediction)^2 over the patterns.
C20_BatchUpdate ==
    [][ LET N == VLen(args.dataset)
        IN  IF Len(losses') = Len(losses) + 1
            THEN /\ Len(calls) = N
                 /\ \A c \in 1 .. N : calls[c].weights = weights
                 /\ \A k \in DOMAIN weights :
                       weights'[k] =
                           QRecip(QClip(QSub(QRecip(weights[k]),
                                             QMul(args.lr, GradSum(calls, k, N))),
                                        G_min, G_max))
                 /\ losses'[Len(losses')] = LossSum(calls, args.dataset, N)
                 /\ updates' = updates + 1
            ELSE /\ weights' = weights
                 /\ updates' = updates
                 /\ \A c \in 1 .. Len(calls') : calls'[c].weights = weights
      ]_vars

\* the end of an epoch over two patterns whose gradients, 4750 and -19750 on
\* the first weight, both count: 1/50000 + 5e-9 * 15000 is 19/200000
C20_Witness ==
    /\ args.dataset = BatchDataset
    /\ Len(losses) = 1
    /\ updates = 1
    /\ grad_acc[0] = QInt(-15000)
    /\ weights[0] = Q(200000, 19)


Returned(r) == runs[r].pc \in {"Converged", "Plateaued", "ExhaustedEpochs", "raised"}

\* C15: two train runs handed the same arguments end the same way, with the
\* same TrainResult and the same sequence of log_fn invocations, whatever
\* other run started before them or ran between their steps
C15_Deterministic ==
    (runs # None /\ Returned(1) /\ Returned(2))
        => /\ runs[1].pc = runs[2].pc
           /\ runs[1].result = runs[2].result
           /\ runs[1].log = runs[2].log

\* both runs returned a TrainResult after logging twice, while a third run
\* with another seed started first and is still in its loop
C15_Witness ==
    /\ runs # None
    /\ Returned(1) /\ Returned(2)
    /\ runs[1].result # None
    /\ Len(runs[1].log) >= 2
    /\ runs[3].args.seed # runs[1].args.seed
    /\ runs[3].pc = "for" /\ runs[3].epoch = 1


\* no step of a run that has returned computes a gradient or updates a weight
NoWorkAfterReturn ==
    Terminal => /\ updates' = updates
                /\ weights' = weights
                /\ calls' = calls
                /\ losses' = losses
                /\ pc' = pc

\* C21: a train call with n_epochs >= 1 ends, after at most n_epochs executed
\* epochs, in one of Converged, Plateaued and ExhaustedEpochs, and a run that
\* has ended computes no further gradient and updates no further weight
C21_Terminates ==
    /\ [](Len(losses) <= args.n_epochs /\ updates <= args.n_epochs)
    /\ [][NoWorkAfterReturn]_vars
    /\ (args.n_epochs >= 1) ~> Terminal

\* a run that used up all of its three epochs
C21_Witness ==
    /\ pc = "ExhaustedEpochs"
    /\ args.n_epochs = MaxEpochs
    /\ Len(losses) = MaxEpochs
    /\ updates = MaxEpochs


\* C22: with error = target - (free_eq[output_pos_idx] - free_eq[output_neg_idx]),
\* the two nudge vectors of an eqprop_gradient call have one entry per free
\* node; at a node n of nudge_signs nudge_pos[n] = sign_n * beta * error and
\* nudge_neg[n] = -nudge_pos[n], and at every other node both are zero
C22_NudgeVectors ==
    g_pc = "returned" =>
        LET net   == g_call.net
            fe    == g_ret.free_eq
            error == QSub(g_call.target,
                          QSub(fe[net.output_pos_idx], fe[net.output_neg_idx]))
        IN  /\ DOMAIN g_ret.nudge_pos = Idx(net.n_free)
            /\ DOMAIN g_ret.nudge_neg = Idx(net.n_free)
            /\ \A n \in Idx(net.n_free) :
                  IF n \in DOMAIN net.nudge_signs
                  THEN /\ g_ret.nudge_pos[n]
                            = QMul(QMul(QInt(net.nudge_signs[n]), g_call.beta), error)
                       /\ g_ret.nudge_neg[n] = QNeg(g_ret.nudge_pos[n])
                  ELSE /\ g_ret.nudge_pos[n] = QZero
                       /\ g_ret.nudge_neg[n] = QZero

\* a call with a nonzero error on the network with both signs: opposite
\* nonzero currents into the two outputs, reversed in the negative phase
C22_Witness ==
    /\ g_pc = "returned"
    /\ g_call.net = TrainNet
    /\ g_call.beta = Q(1, 100000)
    /\ g_call.target = Q(3, 10)
    /\ g_ret.pred = Q(1, 10)
    /\ g_ret.nudge_pos = Vec2(Q(1, 500000), Q(-1, 500000))
    /\ g_ret.nudge_neg = Vec2(Q(-1, 500000), Q(1, 500000))


\* the voltage of global node i: a fixed input, or an entry of the state x
NodeVoltage(c, x, i) ==
    IF i < c.net.n_fixed THEN c.inputs[i] ELSE x[i - c.net.n_fixed]

\* (V[i] - V[j]) / R of connection k in the state x
BranchCurrent(c, x, k) ==
    QDiv(QSub(NodeVoltage(c, x, c.net.connections[k][1]),
              NodeVoltage(c, x, c.net.connections[k][2])),
         c.weights[k])

\* the currents of the connections ending at, and of those starting at,
\* global node g
CurrentsInto(c, x, g) ==
    VSum([k \in DOMAIN c.net.connections |->
            IF c.net.connections[k][2] = g THEN BranchCurrent(c, x, k) ELSE QZero])

CurrentsOutOf(c, x, g) ==
    VSum([k \in DOMAIN c.net.connections |->
            IF c.net.connections[k][1] = g THEN BranchCurrent(c, x, k) ELSE QZero])

\* C23: the residual of kcl at free node f is the sum of (V[i] - V[j])/R over
\* the connections (i, j) with j = f, minus that sum over the connections
\* with i = f, plus nudge[f] (zero without a nudge), plus the diode current
\* at f if f is in diode_nodes, with V the inputs followed by the state
C23_KclResidual ==
    s_pc = "residual" =>
        LET c == s_call
        IN  /\ DOMAIN s_ret = Idx(c.net.n_free)
            /\ \A f \in Idx(c.net.n_free) :
                  /\ s_ret[f].lin
                       = QAdd(QSub(CurrentsInto(c, c.state, f + c.net.n_fixed),
                                   CurrentsOutOf(c, c.state, f + c.net.n_fixed)),
                              IF c.nudge = None THEN QZero ELSE c.nudge[f])
                  /\ s_ret[f].diodes
                       = IF f \in DOMAIN c.net.diode_nodes
                         THEN {<<f, diode_current_into(c.state[f], c.net.diode_nodes[f],
                                                       c.net.diode_params)>>}
                         ELSE {}

\* on the network with a free-to-free, a fixed-to-fixed and two mixed
\* resistors of 10 kOhm: inputs 1 V and 5 V, state (0.1 V, 2.5 V), nudged
C23_Witness ==
    /\ s_pc = "residual"
    /\ s_call.net = GradNet
    /\ s_call.inputs = Vec2(QInt(1), QInt(5))
    /\ s_call.weights = [k \in Idx(4) |-> QInt(10000)]
    /\ s_call.state = Vec2(Q(1, 10), Q(5, 2))
    /\ s_call.nudge # None
    /\ s_ret[0].lin = Q(133, 100000)
    /\ s_ret[1].lin = Q(201, 100000)


\* the locals and the result of resistive_initial_guess on the call c
GuessOf(c) ==
    [G_mat |-> G_mat(c.net, c.weights),
     I_vec |-> I_vec(c.net, c.inputs, c.weights),
     x     |-> resistive_initial_guess(c.net, c.inputs, c.weights)]

\* the call c with connection k listed the other way round
Reversed(c, k) == [c EXCEPT !.net.connections[k] = <<@[2], @[1]>>]

\* the call c with another resistance in connection k
Reweighted(c, k) ==
    [c EXCEPT !.weights[k] = IF @ = QInt(5000) THEN QInt(10000) ELSE QInt(5000)]

FixedToFixed(net, k) ==
    net.connections[k][1] < net.n_fixed /\ net.connections[k][2] < net.n_fixed

\* C24: the vector resistive_initial_guess returns for positive weights
\* solves G x = I and is a zero of solve_network's kcl with the diodes and
\* the nudge taken out; it does not depend on the orientation of any
\* connection; G is symmetric; and a connection between two fixed nodes
\* leaves G and I as they are
C24_GuessSolvesKcl ==
    (s_pc = "guessed" /\ WellFormed(s_call.net) /\ AllPositive(s_call.weights)) =>
        LET c        == s_call
            n        == c.net.n_free
            residual == kcl([c.net EXCEPT !.diode_nodes = <<>>], c.inputs,
                            c.weights, zeros(n), s_ret.x)
        IN  /\ \A a \in Idx(n) :
                  /\ VSum([b \in Idx(n) |-> QMul(s_ret.G_mat[a][b], s_ret.x[b])])
                       = s_ret.I_vec[a]
                  /\ residual[a].lin = QZero
                  /\ residual[a].diodes = {}
                  /\ \A b \in Idx(n) : s_ret.G_mat[a][b] = s_ret.G_mat[b][a]
            /\ \A k \in DOMAIN c.net.connections :
                  /\ GuessOf(Reversed(c, k)) = s_ret
                  /\ FixedToFixed(c.net, k) =>
                        /\ GuessOf(Reweighted(c, k)).G_mat = s_ret.G_mat
                        /\ GuessOf(Reweighted(c, k)).I_vec = s_ret.I_vec

\* the network with a free-to-free and a fixed-to-fixed resistor, 10 kOhm
\* each, between 1 V and 5 V: the free nodes settle at 7/3 V and 11/3 V
C24_Witness ==
    /\ s_pc = "guessed"
    /\ s_call.net = GradNet
    /\ s_call.inputs = Vec2(QInt(1), QInt(5))
    /\ s_call.weights = [k \in Idx(4) |-> QInt(10000)]
    /\ s_ret.x = Vec2(Q(7, 3), Q(11, 3))
    /\ s_ret.G_mat[0][1] = Q(-1, 10000)


\* C25: a solve_network call that returns has called root once; what it
\* returns is that result's x, a vector of n_free voltages and nothing else,
\* whether or not root reported success; and no call is ended by an
\* exception after a root call came back
C25_NoRetryNoFlag ==
    /\ s_pc = "returned" =>
          /\ Len(s_sols) = 1
          /\ s_ret = sol_x(s_sols[1])
          /\ DOMAIN s_ret = Idx(s_call.net.n_free)
    /\ s_pc = "raised" => s_sols = <<>>

\* a call on the divider with a diode pair whose root call did not converge
\* and which returned the last iterate
C25_Witness ==
    /\ s_pc = "returned"
    /\ s_call.net = DiodeDividerNet
    /\ Len(s_sols) = 1
    /\ ~sol_success(s_sols[1])
    /\ s_ret = Vec1(Q(1, 10))


\* the objects the caller had when the call began
CallerObjects == 1 .. Len(m_call.mem.objs)

\* no object of the caller has another value than before, and none was
\* written in place
CallerObjectsUntouched ==
    \A id \in CallerObjects :
        /\ m_mem.objs[id] = m_call.mem.objs[id]
        /\ Ref(id) \notin m_mem.writes

\* the object was created by the call
Fresh(ref) == ref[1] \notin CallerObjects

\* C26 as stated: solve_network and eqprop_gradient leave the objects they
\* are handed unchanged and every voltage vector they return is freshly
\* produced; train leaves the network and the dataset unchanged and the only
\* vector written in place that it hands back is the weights vector it
\* created itself
C26_AllReturnsFresh ==
    /\ m_pc \in {"solve_network returned", "eqprop_gradient returned",
                 "train returned"} => CallerObjectsUntouched
    /\ m_pc = "solve_network returned" => Fresh(m_ret) /\ m_ret \notin m_mem.writes
    /\ m_pc = "eqprop_gradient returned" => Fresh(m_ret.grad) /\ Fresh(m_ret.free_eq)
    /\ m_pc = "train returned" =>
          Fresh(m_ret.weights) /\ m_ret.weights \in m_mem.writes

\* C26, amended: as above, but the free equilibrium eqprop_gradient returns
\* is freshly produced only when none was supplied; a supplied free_eq is
\* handed back as the same object, unchanged
C26_FrameEffects ==
    /\ m_pc \in {"solve_network returned", "eqprop_gradient returned",
                 "train returned"} => CallerObjectsUntouched
    /\ m_pc = "solve_network returned" => Fresh(m_ret) /\ m_ret \notin m_mem.writes
    /\ m_pc = "eqprop_gradient returned" =>
          /\ Fresh(m_ret.grad)
          /\ IF m_call.free_eq = None
             THEN Fresh(m_ret.free_eq) /\ m_ret.free_eq \notin m_mem.writes
             ELSE m_ret.free_eq = m_call.free_eq
    /\ m_pc = "train returned" =>
          Fresh(m_ret.weights) /\ m_ret.weights \in m_mem.writes

\* an eqprop_gradient call that was handed a free equilibrium has returned:
\* it made objects of its own, wrote into some of them, and handed the
\* supplied vector back
C26_Witness ==
    /\ m_pc = "eqprop_gradient returned"
    /\ m_call.free_eq = Ref(4)
    /\ m_ret.free_eq = Ref(4)
    /\ m_ret.grad \in m_mem.writes
    /\ Len(m_mem.objs) > Len(m_call.mem.objs)


\* C27: the step that ends an epoch applies the batch update to the weights
\* the epoch's gradients and loss were computed with, and only then decides
\* on convergence and plateau; a TrainResult built in that step carries the
\* updated weights and, as final_loss, the loss of that epoch, accumulated
\* before the update; the return after the loop carries the weights as the
\* last epoch's update left them and the last epoch's loss.
C27_ReturnAfterUpdate ==
    [][ LET N == VLen(args.dataset)
        IN  IF Len(losses') = Len(losses) + 1
            THEN /\ \A c \in 1 .. N : calls[c].weights = weights
                 /\ weights' = batch_update(weights, grad_acc, args.lr)
                 /\ losses'[Len(losses')] = LossSum(calls, args.dataset, N)
                 /\ pc' = stop_reason(losses'[Len(losses')], stall_count',
                                      args.patience)
                 /\ pc' \in {"Converged", "Plateaued"} =>
                       /\ result'.weights = weights'
                       /\ result'.final_loss = losses'[Len(losses')]
                       /\ log_at' = weights'
                 /\ pc' = "for" => result' = None
            ELSE /\ weights' = weights
                 /\ pc' = "ExhaustedEpochs" =>
                       /\ updates = Len(losses) /\ updates >= 1
                       /\ result'.weights = weights
                       /\ result'.final_loss = losses[Len(losses)]
      ]_vars

\* a run that stopped on a plateau in its second epoch: the returned weights
\* are the updated ones, which differ from the initial ones
C27_Witness ==
    /\ pc = "Plateaued"
    /\ updates = 2
    /\ result.weights = weights
    /\ result.weights # initial_weights(args.G_init)
    /\ result.final_loss = losses[2]


\* C28: during a train run the log callback is invoked at most once per
\* epoch index, the epoch of a convergence or plateau return included: no
\* two invocations carry the same epoch
C28_LogOncePerEpoch ==
    \A i, j \in 1 .. Len(log) : log[i].epoch = log[j].epoch => i = j


\* the eqprop_gradient call c of the epoch under way had no error, and its
\* two nudged solves came back with the same voltages
ZeroError(c) == calls[c].pred = args.dataset[c - 1].target

SameNudgedVoltages(c) == calls[c].V_pos = calls[c].V_neg

\* C29: an eqprop_gradient call whose free-phase prediction equals the
\* target has two all-zero nudge vectors, so its two nudged solves are the
\* same call and have the same outcomes, and when they return the same
\* voltages the gradient is zero for every connection; an epoch of train
\* whose calls are all of that kind leaves every weight as it was.
C29_ZeroErrorNoChange ==
    [][ /\ \A c \in 1 .. Len(calls) :
              ZeroError(c) =>
                 /\ calls[c].nudge_pos = zeros(TrainNet.n_free)
                 /\ calls[c].nudge_neg = zeros(TrainNet.n_free)
                 /\ SameNudgedVoltages(c) =>
                       calls[c].grad = zeros(n_weights(TrainNet))
        /\ ( /\ Len(losses') = Len(losses) + 1
             /\ \A c \in 1 .. Len(calls) : ZeroError(c) /\ SameNudgedVoltages(c) )
              => weights' = weights
      ]_vars

\* the second epoch of a run ended with no error on its one pattern and the
\* same voltages from both nudged solves, after a first epoch that had moved
\* the weights: the loss is zero and the weights are those of the first epoch
C29_Witness ==
    /\ Len(losses) = 2
    /\ updates = 2
    /\ losses[2] = QZero
    /\ losses[1] # QZero
    /\ grad_acc = zeros(n_weights(TrainNet))
    /\ weights # initial_weights(args.G_init)


=============================================================================
